---- MODULE Spec2Model ----
(***************************************************************************)
(* QTrackr: the alert classifier and the terminus status loop of bot.py,   *)
(* and the departure reconciler of track.py, as state machines.            *)
(*                                                                         *)
(* Instants are whole seconds since the epoch, as in the GTFS-realtime     *)
(* feeds; the local zone is taken to be UTC, so a date is an instant       *)
(* divided by the length of a day.  Texts are strings, and the text        *)
(* operations (lower(), strip(), "in", re.search, split) are computed      *)
(* character by character.                                                 *)
(***************************************************************************)
EXTENDS Integers, Sequences, FiniteSets, TLC

VARIABLES
    \* classify_alert_for_route (bot.py): one call
    alert,          \* the Alert passed in
    now_local,      \* datetime.now() read by the call
    cls_pc,         \* "call" | "returned"
    cls_flags,      \* the locals active / upcoming / has_period at the return
    cls_result,     \* the returned label, or RAISED when an exception escapes
    \* build_status_message (bot.py): the terminus loop of one evaluation cycle
    st_pc,          \* "fetch" | "build" | "loop" | "raised"
    alerts,         \* the alert feed of the cycle, a list
    routes,         \* bot.py's routes table, a list of rows
    termini_map,    \* terminus -> set of route ids, in insertion order
    todo_termini,   \* the termini still to visit, in sorted order
    terminus,       \* the terminus being scanned (NoTerminus between termini)
    todo_routes,    \* routes of the terminus not yet iterated
    rid,            \* the route being scanned (NoRoute between routes)
    alert_idx,      \* index into route_alerts[rid] of the next alert
    status,         \* the local `status` of the terminus being scanned
    closure_reasons,\* the local `closure_reasons`
    last_scan,      \* what the last scanned alert was and how it was classified
    final_status,   \* terminus -> status at the end of its iteration
    final_reasons,  \* terminus -> closure_reasons at the end of its iteration
    closures_map,   \* terminus -> deduplicated reasons
    termini_closure_lines, termini_upcoming_lines, termini_operational_lines,
    \* get_next_services (track.py): one departure query
    store,          \* the published schedule tables
    dep_now,        \* now_local: datetime.now() read before the schedule lookup
    now_utc,        \* datetime.now(timezone.utc) read after the fetch
    service_count,  \* the requested count
    stop_ids,       \* the requested stops
    dep_pc,         \* "idle" | "call" | "fetching" | "fetched" | "fetch_failed" | "returned"
    scheduled_df,   \* rows of get_scheduled_departures
    scheduled_services, \* service_key -> record
    feed,           \* the FeedMessage the merge loop reads
    fetch_outcome,  \* how the fetch ended: "ok", or what failed
    dep_result,     \* what the query returned: [kind, records, name]
    \* get_service_ids_for_day (track.py): one call
    svc_pc,         \* "idle" | "call" | "returned"
    date_obj,       \* the date passed in, a day number
    service_ids,    \* the returned set
    \* the schedule store over time (track.py, bot.py): refresh and its readers
    gtfs_dir,       \* the GTFS directory on disk: which download it holds, what is wrong with it
    bot_routes,     \* bot.py's own routes table: the download it was read from
    upd_pc,         \* auto_update_gtfs_daily: "sleeping" | "fetching"
    cyc_pc,         \* build_status_message: "idle" | "alerts" | "positions" | "done"
    cyc_reads,      \* the download each read of the cycle saw
    qry_pc,         \* get_next_services: "idle" | "fetching" | "done"
    qry_reads,      \* the download the query's tables came from
    \* get_rtt_vehicle_counts (track.py): one call
    cnt_pc,         \* "idle" | "call" | "returned"
    pos_fetch,      \* how the VehiclePositions fetch ended: "ok", or what failed
    positions,      \* the entities of the parsed VehiclePositions feed
    rtt_counts,     \* the returned counts
    \* build_status_message (bot.py): the feeds and the statistics of the cycle
    alert_fetch,    \* how the alert fetch ended: "ok", or what failed
    routes_today,   \* get_routes_operating_today(now_local.date())
    \* get_current_service_period (bot.py): one call
    per_pc,         \* "idle" | "call" | "returned"
    current_period, \* the returned label
    \* the wall clock datetime.now() reads while a cycle runs
    wall_clock,
    labels_given    \* the (alert, label) pairs classify_alert_for_route returned so far

clsVars == <<alert, now_local, cls_pc, cls_flags, cls_result>>
stVars == <<st_pc, alerts, routes, termini_map, todo_termini, terminus, todo_routes, rid,
            alert_idx, status, closure_reasons, last_scan, final_status,
            final_reasons, closures_map, termini_closure_lines,
            termini_upcoming_lines, termini_operational_lines>>
depVars == <<store, dep_now, now_utc, service_count, stop_ids, dep_pc, scheduled_df,
             scheduled_services, feed, fetch_outcome, dep_result>>
svcVars == <<svc_pc, date_obj, service_ids>>
refVars == <<gtfs_dir, bot_routes, upd_pc, cyc_pc, cyc_reads, qry_pc, qry_reads>>
cntVars == <<cnt_pc, pos_fetch, positions, rtt_counts>>
cycVars == <<alert_fetch, routes_today>>
perVars == <<per_pc, current_period>>
clockVars == <<wall_clock, labels_given>>
extVars == <<svcVars, refVars, cntVars, cycVars, perVars, clockVars>>
vars == <<clsVars, stVars, depVars, extVars>>

-----------------------------------------------------------------------------
(* Strings *)

Char(s, i) == SubSeq(s, i, i)

\* Python's `sub in s`
Contains(s, sub) ==
    \E i \in 1..(Len(s) - Len(sub) + 1) : SubSeq(s, i, i + Len(sub) - 1) = sub

UpperLetters == "ABCDEFGHIJKLMNOPQRSTUVWXYZ"
LowerLetters == "abcdefghijklmnopqrstuvwxyz"
Digits == "0123456789"

IsUpper(c) == Len(c) = 1 /\ Contains(UpperLetters, c)
IsLowerLetter(c) == Len(c) = 1 /\ Contains(LowerLetters, c)
IsAlpha(c) == IsUpper(c) \/ IsLowerLetter(c)
IsDigit(c) == Len(c) = 1 /\ Contains(Digits, c)
IsWordChar(c) == IsAlpha(c) \/ IsDigit(c) \/ c = "_"
IsSpace(c) == c = " "

IndexIn(letters, c) == CHOOSE i \in 1..Len(letters) : Char(letters, i) = c

LowerChar(c) == IF IsUpper(c) THEN Char(LowerLetters, IndexIn(UpperLetters, c)) ELSE c
UpperChar(c) == IF IsLowerLetter(c) THEN Char(UpperLetters, IndexIn(LowerLetters, c)) ELSE c

RECURSIVE Lower(_)
\* str.lower()
Lower(s) == IF s = "" THEN "" ELSE LowerChar(Char(s, 1)) \o Lower(SubSeq(s, 2, Len(s)))

RECURSIVE Upper(_)
\* str.upper()
Upper(s) == IF s = "" THEN "" ELSE UpperChar(Char(s, 1)) \o Upper(SubSeq(s, 2, Len(s)))

RECURSIVE LStrip(_)
LStrip(s) == IF s # "" /\ IsSpace(Char(s, 1)) THEN LStrip(SubSeq(s, 2, Len(s))) ELSE s

RECURSIVE RStrip(_)
RStrip(s) == IF s # "" /\ IsSpace(Char(s, Len(s))) THEN RStrip(SubSeq(s, 1, Len(s) - 1)) ELSE s

\* str.strip()
Strip(s) == RStrip(LStrip(s))

\* int() of a run of decimal digits
DigitValue(c) == IndexIn(Digits, c) - 1

RECURSIVE ToInt(_)
ToInt(s) == IF s = "" THEN 0 ELSE ToInt(SubSeq(s, 1, Len(s) - 1)) * 10 + DigitValue(Char(s, Len(s)))

AllDigits(s) == s # "" /\ \A i \in 1..Len(s) : IsDigit(Char(s, i))

-----------------------------------------------------------------------------
(* Dates: datetime.date as a day number, day 0 being 1970-01-01 *)

SecondsPerDay == 24 * 60 * 60

\* now_local.date()
DateOf(instant) == instant \div SecondsPerDay

IsLeap(y) == (y % 4 = 0 /\ y % 100 # 0) \/ y % 400 = 0

DaysInMonth(y, m) ==
    IF m = 2 THEN (IF IsLeap(y) THEN 29 ELSE 28)
    ELSE IF m \in {4, 6, 9, 11} THEN 30 ELSE 31

\* date(y, m, d) as a day number (proleptic Gregorian calendar)
DaysFromCivil(y, m, d) ==
    LET yy == IF m <= 2 THEN y - 1 ELSE y
        era == yy \div 400
        yoe == yy - era * 400
        mp == IF m > 2 THEN m - 3 ELSE m + 9
        doy == (153 * mp + 2) \div 5 + d - 1
        doe == yoe * 365 + yoe \div 4 - yoe \div 100 + doy
    IN  era * 146097 + doe - 719468

\* the (year, month, day) of a day number
CivilFromDays(z) ==
    LET zz == z + 719468
        era == zz \div 146097
        doe == zz - era * 146097
        yoe == (doe - doe \div 1460 + doe \div 36524 - doe \div 146096) \div 365
        doy == doe - (365 * yoe + yoe \div 4 - yoe \div 100)
        mp == (5 * doy + 2) \div 153
        d == doy - (153 * mp + 2) \div 5 + 1
        m == IF mp < 10 THEN mp + 3 ELSE mp - 9
    IN  [year |-> yoe + era * 400 + (IF m <= 2 THEN 1 ELSE 0), month |-> m, day |-> d]

MonthNames == <<"january", "february", "march", "april", "may", "june", "july",
                "august", "september", "october", "november", "december">>
MonthAbbrs == <<"jan", "feb", "mar", "apr", "may", "jun", "jul", "aug", "sep",
                "oct", "nov", "dec">>

\* the month strptime's %B, then %b, reads in `name` (case-insensitively); 0: neither
MonthOf(name) ==
    LET n == Lower(name) IN
    IF \E i \in 1..12 : MonthNames[i] = n THEN CHOOSE i \in 1..12 : MonthNames[i] = n
    ELSE IF \E i \in 1..12 : MonthAbbrs[i] = n THEN CHOOSE i \in 1..12 : MonthAbbrs[i] = n
    ELSE 0

\* datetime.strptime(f"{day} {month_name} {year}", "%d %B %Y" / "%d %b %Y").date():
\* %Y reads exactly four digits, %d a day 1..31, and the date must exist.
\* ok = FALSE is the ValueError of both attempts (parsed = None).
Strptime(day, month_name, year) ==
    LET m == MonthOf(month_name) IN
    IF m # 0 /\ year >= 1000 /\ year <= 9999 /\ day >= 1 /\ day <= DaysInMonth(year, m)
    THEN [ok |-> TRUE, year |-> year, month |-> m, day |-> day]
    ELSE [ok |-> FALSE, year |-> 0, month |-> 0, day |-> 0]

-----------------------------------------------------------------------------
(* re.search(r"\b(\d{1,2})\s+([A-Za-z]+)(?:\s+(\d{4}))?", full_text) *)

RECURSIVE DigitRun(_, _)
DigitRun(s, i) == IF i <= Len(s) /\ IsDigit(Char(s, i)) THEN 1 + DigitRun(s, i + 1) ELSE 0

RECURSIVE SpaceRun(_, _)
SpaceRun(s, i) == IF i <= Len(s) /\ IsSpace(Char(s, i)) THEN 1 + SpaceRun(s, i + 1) ELSE 0

RECURSIVE AlphaRun(_, _)
AlphaRun(s, i) == IF i <= Len(s) /\ IsAlpha(Char(s, i)) THEN 1 + AlphaRun(s, i + 1) ELSE 0

\* the pattern matches at position i: a word boundary, one or two digits, spaces, letters
DateMatchAt(s, i) ==
    /\ IsDigit(Char(s, i))
    /\ (i = 1 \/ ~IsWordChar(Char(s, i - 1)))
    /\ DigitRun(s, i) <= 2
    /\ SpaceRun(s, i + DigitRun(s, i)) >= 1
    /\ AlphaRun(s, i + DigitRun(s, i) + SpaceRun(s, i + DigitRun(s, i))) >= 1

\* the groups of the leftmost match; year_str = "" is group(3) = None
DateGroups(s) ==
    IF \E i \in 1..Len(s) : DateMatchAt(s, i)
    THEN LET i == CHOOSE k \in 1..Len(s) :
                     DateMatchAt(s, k) /\ \A j \in 1..(k - 1) : ~DateMatchAt(s, j)
             nd == DigitRun(s, i)
             ns == SpaceRun(s, i + nd)
             m0 == i + nd + ns
             na == AlphaRun(s, m0)
             ns2 == SpaceRun(s, m0 + na)
             y0 == m0 + na + ns2
         IN  [found |-> TRUE,
              day |-> SubSeq(s, i, i + nd - 1),
              month_name |-> SubSeq(s, m0, m0 + na - 1),
              year_str |-> IF ns2 >= 1 /\ DigitRun(s, y0) >= 4
                           THEN SubSeq(s, y0, y0 + 3) ELSE ""]
    ELSE [found |-> FALSE, day |-> "", month_name |-> "", year_str |-> ""]

-----------------------------------------------------------------------------
(* bot.py: get_current_service_period *)

\* now_local.weekday(): Monday is 0; day 0 (1970-01-01) was a Thursday
WeekdayOf(instant) == (DateOf(instant) + 3) % 7

\* now_local.hour * 60 + now_local.minute
MinuteOfDay(instant) == (instant % SecondsPerDay) \div 60

\* the six labels, without their emoji prefixes
overnight == "Overnight"
peak == "Peak Period"
offpeak_weekday == "Off-Peak Weekday"
offpeak_evening == "Off-Peak Evening"
nightlink == "NightLink Service Hours"
weekend == "Weekend"

Band(label, lo, hi) == [label |-> label, lo |-> lo, hi |-> hi]

\* line 16: Friday and Saturday from 23:51, Saturday and Sunday until 6:00
NightLinkBands(wd) ==
    (IF wd \in {5, 6} THEN <<Band(nightlink, 0, 6 * 60)>> ELSE <<>>)
    \o (IF wd \in {4, 5} THEN <<Band(nightlink, 23 * 60 + 51, 24 * 60 - 1)>> ELSE <<>>)

\* lines 21-33: the tests made on a Saturday (5) or a Sunday (6), in order
WeekendBands(wd) ==
    <<Band(weekend, 6 * 60 + 1, 18 * 60 + 1)>>
    \o (IF wd = 6
        THEN <<Band(offpeak_evening, 18 * 60 + 1, 22 * 60),
               Band(overnight, 22 * 60 + 1, 23 * 60 + 59)>>
        ELSE <<Band(offpeak_evening, 18 * 60 + 1, 23 * 60 + 50)>>)

\* lines 38-49: the tests made from Monday to Friday, in order
WeekdayBands ==
    <<Band(overnight, 0, 5 * 60 + 50),
      Band(peak, 5 * 60 + 51, 9 * 60),
      Band(offpeak_weekday, 9 * 60 + 1, 14 * 60 + 50),
      Band(peak, 14 * 60 + 51, 18 * 60),
      Band(offpeak_evening, 18 * 60 + 1, 22 * 60),
      Band(overnight, 22 * 60 + 1, 23 * 60 + 59)>>

\* the tests of the day below the NightLink test
DayBands(wd) == IF wd \in {5, 6} THEN WeekendBands(wd) ELSE WeekdayBands

InBand(b, minutes) == b.lo <= minutes /\ minutes <= b.hi

RECURSIVE FirstBand(_, _, _)
\* the label of the first test of `bands`, from the i-th, that holds; the fallback
\* `return overnight` (lines 35 and 51) when none does
FirstBand(bands, minutes, i) ==
    IF i > Len(bands) THEN overnight
    ELSE IF InBand(bands[i], minutes) THEN bands[i].label
    ELSE FirstBand(bands, minutes, i + 1)

\* a clock that looks at the bands of the day before the NightLink test
PeriodDayBandsFirst(instant) ==
    IF \E i \in 1..Len(DayBands(WeekdayOf(instant))) :
           InBand(DayBands(WeekdayOf(instant))[i], MinuteOfDay(instant))
    THEN FirstBand(DayBands(WeekdayOf(instant)), MinuteOfDay(instant), 1)
    ELSE nightlink

\* get_current_service_period(now_local)
get_current_service_period(instant) ==
    IF \E i \in 1..Len(NightLinkBands(WeekdayOf(instant))) :
           InBand(NightLinkBands(WeekdayOf(instant))[i], MinuteOfDay(instant))
    THEN nightlink
    ELSE FirstBand(DayBands(WeekdayOf(instant)), MinuteOfDay(instant), 1)

\* one call, with the clock the caller passes
PeriodCall ==
    /\ per_pc = "call"
    /\ current_period' = get_current_service_period(now_local)
    /\ per_pc' = "returned"
    /\ UNCHANGED <<alert, now_local, cls_pc, cls_flags, cls_result, stVars, depVars,
                   svcVars, refVars, cntVars, cycVars, clockVars>>

-----------------------------------------------------------------------------
(* classify_alert_for_route *)

\* the value the model gives a call that an exception leaves
RAISED == "<raised>"

Labels == {"unknown", "active", "upcoming", "closure"}

\* an ActivePeriod's start or end beyond what datetime can hold (the field is a
\* uint64; datetime ends with the year 9999): every such value is this one
OUT_OF_RANGE == 0 - 1

\* datetime.fromtimestamp(ts, timezone.utc) raises ValueError / OverflowError
FromTimestampRaises(ts) == ts = OUT_OF_RANGE

\* timedelta(days=7)
DAYS_AHEAD == 7

\* timedelta(days=180)
ROLL_FORWARD_DAYS == 180

closure_keywords == <<"track closure", "track closures", "rail closure", "no trains",
                      "no train services", "bus replacement">>

closure_effects == {"NO_SERVICE", "REDUCED_SERVICE", "DETOUR", "MODIFIED_SERVICE"}

\* translation[0].text of a TranslatedString, "" when there is none
FirstTranslation(ts) == IF Len(ts) > 0 /\ ts[1] # "" THEN ts[1] ELSE ""

RECURSIVE ScanPeriods(_, _, _, _)
\* the body of the loop over alert.active_period, from window i on; raised: a
\* fromtimestamp call raised and left the loop
ScanPeriods(periods, i, now, up) ==
    IF i > Len(periods)
    THEN [active |-> FALSE, upcoming |-> up, raised |-> FALSE]
    ELSE LET ap == periods[i]
             has_start == ap.start # 0
             has_end == ap.end # 0
         IN  IF (has_start /\ FromTimestampRaises(ap.start))
                \/ (has_end /\ FromTimestampRaises(ap.end))
             THEN [active |-> FALSE, upcoming |-> up, raised |-> TRUE]
             ELSE IF has_end /\ ap.end < now
             THEN ScanPeriods(periods, i + 1, now, up)
             ELSE IF has_start /\ ap.start <= now /\ (~has_end \/ now <= ap.end)
             THEN [active |-> TRUE, upcoming |-> up, raised |-> FALSE]
             ELSE ScanPeriods(periods, i + 1, now,
                              up \/ (has_start /\ now < ap.start
                                     /\ ap.start <= now + DAYS_AHEAD * SecondsPerDay))

\* Step 1 without its try/except: the exception leaves the function
TimingFromPeriodsUncaught(a, now) ==
    LET r == ScanPeriods(a.active_period, 1, now, FALSE)
    IN  [active |-> r.active, upcoming |-> r.upcoming,
         has_period |-> Len(a.active_period) > 0, raised |-> r.raised]

\* Step 1: the loop inside try / except Exception
TimingFromPeriods(a, now) ==
    LET r == ScanPeriods(a.active_period, 1, now, FALSE)
    IN  [active |-> r.active, upcoming |-> r.upcoming,
         has_period |-> Len(a.active_period) > 0, raised |-> FALSE]

\* (header_text + " " + desc_text).strip()
FullText(a) ==
    Strip(FirstTranslation(a.header_text) \o " " \o FirstTranslation(a.description_text))

NoDate == [found |-> FALSE, date |-> 0, raised |-> FALSE]

\* parsed.replace(year=parsed.year + 1) when parsed < today - timedelta(days=180);
\* raised: replace() raised ValueError (29 February, or the year after 9999)
RollForward(parsed, ordinal, today) ==
    IF ordinal < today - ROLL_FORWARD_DAYS
    THEN IF parsed.year + 1 > 9999 \/ parsed.day > DaysInMonth(parsed.year + 1, parsed.month)
         THEN [found |-> FALSE, date |-> 0, raised |-> TRUE]
         ELSE [found |-> TRUE, raised |-> FALSE,
               date |-> DaysFromCivil(parsed.year + 1, parsed.month, parsed.day)]
    ELSE [found |-> TRUE, date |-> ordinal, raised |-> FALSE]

DateFromParsed(parsed, today) ==
    IF ~parsed.ok THEN NoDate
    ELSE RollForward(parsed, DaysFromCivil(parsed.year, parsed.month, parsed.day), today)

DateFromGroups(g, today) ==
    IF ~g.found THEN NoDate
    ELSE DateFromParsed(
             Strptime(ToInt(g.day), g.month_name,
                      IF g.year_str = "" THEN CivilFromDays(today).year ELSE ToInt(g.year_str)),
             today)

\* the body of Step 2's try: the date the text names, a missing year being this year
ParseExplicitDate(full_text, today) == DateFromGroups(DateGroups(full_text), today)

\* explicit_date <= today: active; today < explicit_date <= one_week_ahead: upcoming
FlagsFromDate(d, today) ==
    IF ~d.found THEN [active |-> FALSE, upcoming |-> FALSE]
    ELSE IF d.date <= today THEN [active |-> TRUE, upcoming |-> FALSE]
    ELSE IF d.date <= today + DAYS_AHEAD THEN [active |-> FALSE, upcoming |-> TRUE]
    ELSE [active |-> FALSE, upcoming |-> FALSE]

\* Step 2: the textual fallback, its parsing inside try / except Exception
\* (explicit_date = None when it raises)
TimingFromText(a, now) ==
    FlagsFromDate(ParseExplicitDate(FullText(a), DateOf(now)), DateOf(now))

has_closure_words(a) ==
    \E k \in 1..Len(closure_keywords) : Contains(Lower(FullText(a)), closure_keywords[k])

is_closure_effect(a) == a.effect \in closure_effects

\* a fallback that also runs when the windows gave neither active nor upcoming
MergeTimingWhenIdle(p, t) ==
    IF p.active \/ p.upcoming THEN p
    ELSE [active |-> t.active, upcoming |-> t.upcoming, has_period |-> p.has_period,
          raised |-> p.raised]

\* has_period decides which timing stands when Step 3 is reached
MergeTiming(p, t) ==
    IF p.has_period THEN p
    ELSE [active |-> t.active, upcoming |-> t.upcoming, has_period |-> FALSE,
          raised |-> p.raised]

\* the locals active / upcoming / has_period when Step 3 is reached
TimingFlags(a, now) == MergeTiming(TimingFromPeriods(a, now), TimingFromText(a, now))

\* a refinement that tests the closure signs before the timing flags
RefineLabelClosureFirst(a, flags) ==
    IF is_closure_effect(a) \/ has_closure_words(a) THEN "closure"
    ELSE IF flags.active THEN "active"
    ELSE IF flags.upcoming THEN "upcoming"
    ELSE "unknown"

\* Step 3: the returned label from the flags
RefineLabel(a, flags) ==
    IF flags.active
    THEN (IF is_closure_effect(a) \/ has_closure_words(a) THEN "closure" ELSE "active")
    ELSE IF flags.upcoming THEN "upcoming"
    ELSE "unknown"

\* classify_alert_for_route(alert, route_id) called at instant `now`
LabelOrRaise(a, flags) == IF flags.raised THEN RAISED ELSE RefineLabel(a, flags)

classify_alert_for_route(a, route_id, now) == LabelOrRaise(a, TimingFlags(a, now))

-----------------------------------------------------------------------------
(* build_status_message: the termini map *)

\* the characters of the model's texts in code-point order, for sorted()
CodePoints == " -/0123456789:<>ABCDEFGHIJKLMNOPQRSTUVWXYZ_abcdefghijklmnopqrstuvwxyz"

RECURSIVE StrLess(_, _)
\* a < b on str
StrLess(a, b) ==
    IF a = "" THEN b # ""
    ELSE IF b = "" THEN FALSE
    ELSE IF Char(a, 1) = Char(b, 1) THEN StrLess(SubSeq(a, 2, Len(a)), SubSeq(b, 2, Len(b)))
    ELSE IndexIn(CodePoints, Char(a, 1)) < IndexIn(CodePoints, Char(b, 1))

RECURSIVE InsertByLower(_, _)
\* x put behind every element whose lower-cased name is not greater (a stable sort)
InsertByLower(x, sorted) ==
    IF sorted = <<>> THEN <<x>>
    ELSE IF StrLess(Lower(x), Lower(Head(sorted))) THEN <<x>> \o sorted
    ELSE <<Head(sorted)>> \o InsertByLower(x, Tail(sorted))

RECURSIVE SortedByLower(_)
\* sorted(names, key=lambda s: s.lower())
SortedByLower(names) ==
    IF names = <<>> THEN <<>>
    ELSE InsertByLower(names[Len(names)], SortedByLower(SubSeq(names, 1, Len(names) - 1)))

\* the delimiter `kind` stands at position i of s: " - " and "/" as they are, "to" and
\* "via" as the patterns \bto\b and \bvia\b under re.IGNORECASE
DelimiterAt(s, i, kind) ==
    /\ i + Len(kind) - 1 <= Len(s)
    /\ IF kind \in {"to", "via"}
       THEN /\ Lower(SubSeq(s, i, i + Len(kind) - 1)) = kind
            /\ (i = 1 \/ ~IsWordChar(Char(s, i - 1)))
            /\ (i + Len(kind) > Len(s) \/ ~IsWordChar(Char(s, i + Len(kind))))
       ELSE SubSeq(s, i, i + Len(kind) - 1) = kind

RECURSIVE SplitFrom(_, _, _, _)
\* str.split(kind) / re.split(kind, s) of s from `start`, the scan standing at i
SplitFrom(s, kind, i, start) ==
    IF i > Len(s) THEN <<SubSeq(s, start, Len(s))>>
    ELSE IF DelimiterAt(s, i, kind)
    THEN <<SubSeq(s, start, i - 1)>> \o SplitFrom(s, kind, i + Len(kind), i + Len(kind))
    ELSE SplitFrom(s, kind, i + 1, start)

RECURSIVE StripNonEmpty(_)
\* [p.strip() for p in parts if p.strip()]
StripNonEmpty(parts) ==
    IF parts = <<>> THEN <<>>
    ELSE (IF Strip(Head(parts)) # "" THEN <<Strip(Head(parts))>> ELSE <<>>)
         \o StripNonEmpty(Tail(parts))

\* the `parts` of a route's long name
NameParts(long_name) ==
    IF Contains(long_name, " - ") THEN StripNonEmpty(SplitFrom(long_name, " - ", 1, 1))
    ELSE IF Contains(Lower(long_name), " to ") THEN StripNonEmpty(SplitFrom(long_name, "to", 1, 1))
    ELSE IF Contains(long_name, "/") THEN StripNonEmpty(SplitFrom(long_name, "/", 1, 1))
    ELSE IF Contains(Lower(long_name), " via ") THEN StripNonEmpty(SplitFrom(long_name, "via", 1, 1))
    ELSE <<Strip(long_name)>>

\* endpoints = [parts[0], parts[-1]] or [parts[0]]; raised: parts is empty and
\* parts[0] raises IndexError
EndpointsOf(parts) ==
    IF Len(parts) >= 2 THEN [raised |-> FALSE, endpoints |-> <<parts[1], parts[Len(parts)]>>]
    ELSE IF Len(parts) = 1 THEN [raised |-> FALSE, endpoints |-> <<parts[1]>>]
    ELSE [raised |-> TRUE, endpoints |-> <<>>]

\* str(r.get('route_long_name') or r.get('route_short_name') or '')
LongNameOf(r) == IF r.route_long_name # "" THEN r.route_long_name ELSE r.route_short_name

\* termini_map.setdefault(ep, set()).add(route_id), the map a list of
\* [terminus, routes] in insertion order
Register(tm, ep, route_id) ==
    IF \E i \in 1..Len(tm) : tm[i].terminus = ep
    THEN [i \in 1..Len(tm) |->
             IF tm[i].terminus = ep
             THEN [terminus |-> ep, routes |-> tm[i].routes \cup {route_id}]
             ELSE tm[i]]
    ELSE Append(tm, [terminus |-> ep, routes |-> {route_id}])

RECURSIVE RegisterAll(_, _, _)
\* for ep in endpoints: if not ep: continue; register
RegisterAll(tm, eps, route_id) ==
    IF eps = <<>> THEN tm
    ELSE RegisterAll(IF Head(eps) = "" THEN tm ELSE Register(tm, Head(eps), route_id),
                     Tail(eps), route_id)

RECURSIVE RailTermini(_, _, _)
\* the loop over rail_routes (route_type == 2), from row i on
RailTermini(rows, i, tm) ==
    IF i > Len(rows) THEN [raised |-> FALSE, map |-> tm]
    ELSE IF rows[i].route_type # "2" THEN RailTermini(rows, i + 1, tm)
    ELSE IF EndpointsOf(NameParts(LongNameOf(rows[i]))).raised
    THEN [raised |-> TRUE, map |-> tm]
    ELSE RailTermini(rows, i + 1,
                     RegisterAll(tm, EndpointsOf(NameParts(LongNameOf(rows[i]))).endpoints,
                                 rows[i].route_id))

extra_services == <<[short_name |-> "M1", label |-> "<:M1:1439171140353261660> Metro 1"],
                    [short_name |-> "M2", label |-> "<:M2:1439171138575011961> Metro 2"],
                    [short_name |-> "GCR1",
                     label |-> "<:GCLR:1439172376481894401> Gold Coast Light Rail"]>>

RECURSIVE ExtraTermini(_, _, _, _)
\* the loops over extra_services (k) and the rows whose upper-cased short name matches (i)
ExtraTermini(rows, k, i, tm) ==
    IF k > Len(extra_services) THEN tm
    ELSE IF i > Len(rows) THEN ExtraTermini(rows, k + 1, 1, tm)
    ELSE ExtraTermini(rows, k, i + 1,
                      IF Upper(Strip(rows[i].route_short_name)) = extra_services[k].short_name
                      THEN Register(tm, extra_services[k].label, rows[i].route_id)
                      ELSE tm)

\* termini_map as build_status_message builds it from the routes table
BuildTerminiFrom(rail, rows) ==
    IF rail.raised THEN rail ELSE [raised |-> FALSE, map |-> ExtraTermini(rows, 1, 1, rail.map)]

BuildTermini(rows) == BuildTerminiFrom(RailTermini(rows, 1, <<>>), rows)

TerminusNames(tm) == [i \in 1..Len(tm) |-> tm[i].terminus]

RoutesOf(tm, name) == (CHOOSE e \in {tm[i] : i \in 1..Len(tm)} : e.terminus = name).routes

-----------------------------------------------------------------------------
(* build_status_message: route_alerts and the relevance guard *)

\* no terminus / no route is being scanned
NoTerminus == "<none>"
NoRoute == "<no route>"

RECURSIVE AlertsNaming(_, _, _, _)
\* route_alerts[route]: the feed's alerts, once for each informed entity whose
\* stripped route_id is `route` (feed alert i, entity j)
AlertsNaming(feed_alerts, route, i, j) ==
    IF i > Len(feed_alerts) THEN <<>>
    ELSE IF j > Len(feed_alerts[i].informed_entity)
    THEN AlertsNaming(feed_alerts, route, i + 1, 1)
    ELSE (IF Strip(feed_alerts[i].informed_entity[j]) = route THEN <<feed_alerts[i]>> ELSE <<>>)
         \o AlertsNaming(feed_alerts, route, i, j + 1)

\* route_alerts.get(rid, [])
alerts_for_route(feed_alerts, route) == AlertsNaming(feed_alerts, route, 1, 1)

LINE_KEYWORD_TO_TERMINI ==
    <<[kw |-> "gold coast line", termini |-> {"Varsity Lakes"}],
      [kw |-> "gold coast lines", termini |-> {"Varsity Lakes"}],
      [kw |-> "shorncliffe line", termini |-> {"Shorncliffe"}],
      [kw |-> "shorncliffe lines", termini |-> {"Shorncliffe"}],
      [kw |-> "beenleigh line", termini |-> {"Beenleigh"}],
      [kw |-> "cleveland line", termini |-> {"Cleveland"}],
      [kw |-> "caboolture line", termini |-> {"Caboolture"}],
      [kw |-> "redcliffe peninsula line", termini |-> {"Redcliffe"}],
      [kw |-> "airport line", termini |-> {"Airport"}],
      [kw |-> "doomben line", termini |-> {"Doomben"}],
      [kw |-> "fern grove line", termini |-> {"Ferny Grove"}],
      [kw |-> "ferny grove line", termini |-> {"Ferny Grove"}],
      [kw |-> "ipswich line", termini |-> {"Ipswich"}],
      [kw |-> "rosewood line", termini |-> {"Rosewood"}],
      [kw |-> "sunshine coast line", termini |-> {"Nambour", "Gympie North"}],
      [kw |-> "nambour line", termini |-> {"Nambour", "Gympie North"}]>>

network_wide_phrases == <<"all lines", "all train lines", "entire network">>

\* (header_txt + " " + desc_txt).lower()
full_txt_lower(a) ==
    Lower(FirstTranslation(a.header_text) \o " " \o FirstTranslation(a.description_text))

\* the guard with its line-keyword clause not asking for the terminus
GuardOnTextAnyLine(txt, term) ==
    \/ Contains(txt, Lower(term))
    \/ \E k \in 1..Len(LINE_KEYWORD_TO_TERMINI) : Contains(txt, LINE_KEYWORD_TO_TERMINI[k].kw)
    \/ \E k \in 1..Len(network_wide_phrases) : Contains(txt, network_wide_phrases[k])

\* matches_terminus_name or matches_line_keyword or network_wide
GuardOnText(txt, term) ==
    \/ Contains(txt, Lower(term))
    \/ \E k \in 1..Len(LINE_KEYWORD_TO_TERMINI) :
          /\ Contains(txt, LINE_KEYWORD_TO_TERMINI[k].kw)
          /\ term \in LINE_KEYWORD_TO_TERMINI[k].termini
    \/ \E k \in 1..Len(network_wide_phrases) : Contains(txt, network_wide_phrases[k])

RelevanceGuard(a, term) == GuardOnText(full_txt_lower(a), term)

\* reason_text = header or desc or f"Closure affecting route {rid}"
ReasonText(a, route) ==
    IF FirstTranslation(a.header_text) # "" THEN FirstTranslation(a.header_text)
    ELSE IF FirstTranslation(a.description_text) # "" THEN FirstTranslation(a.description_text)
    ELSE "Closure affecting route " \o route

RECURSIVE Dedupe(_, _)
\* list(dict.fromkeys(reasons)): the first occurrences, in order
Dedupe(reasons, seen) ==
    IF reasons = <<>> THEN <<>>
    ELSE (IF Head(reasons) \in seen THEN <<>> ELSE <<Head(reasons)>>)
         \o Dedupe(Tail(reasons), seen \cup {Head(reasons)})

-----------------------------------------------------------------------------
(* build_status_message: the cycle up to the end of the terminus loop *)

\* how a GET of a realtime feed can end: a parsed body, an exception of the GET, a
\* status other than 200, a body ParseFromString rejects
FetchOutcomes == {"ok", "unreachable", "status", "unparsable"}

\* a fetch that hands the alerts of the body to the caller although the body did not
\* parse
AlertsKeptOnDecodeError(outcome, body) ==
    IF outcome \in {"ok", "unparsable"} THEN body ELSE <<>>

\* fetch_gtfs_rt_alerts(session): the alerts of the body, or [] when the status is not
\* 200 or the GET or ParseFromString raises (the loop that fills the list is inside
\* the try, after the parse)
fetch_gtfs_rt_alerts(outcome, body) == IF outcome = "ok" THEN body ELSE <<>>

\* the cycle awaits fetch_gtfs_rt_alerts; the body is one of `feeds`
FetchAlerts(feeds) ==
    /\ st_pc = "fetch"
    /\ \E outcome \in FetchOutcomes, body \in feeds :
          /\ alert_fetch' = outcome
          /\ alerts' = fetch_gtfs_rt_alerts(outcome, body)
    /\ st_pc' = "build"
    /\ UNCHANGED <<routes, termini_map, todo_termini, terminus, todo_routes, rid, alert_idx,
                   status, closure_reasons, last_scan, final_status, final_reasons,
                   closures_map, termini_closure_lines, termini_upcoming_lines,
                   termini_operational_lines, clsVars, depVars, svcVars, refVars, cntVars,
                   routes_today, perVars, clockVars>>

\* route_alerts and termini_map are built; IndexError leaves the function
BuildMaps ==
    /\ st_pc = "build"
    /\ IF BuildTermini(routes).raised
       THEN /\ st_pc' = "raised"
            /\ UNCHANGED <<termini_map, todo_termini>>
       ELSE /\ st_pc' = "loop"
            /\ termini_map' = BuildTermini(routes).map
            /\ todo_termini' = SortedByLower(TerminusNames(BuildTermini(routes).map))
    /\ UNCHANGED <<alerts, routes, terminus, todo_routes, rid, alert_idx, status,
                   closure_reasons, last_scan, final_status, final_reasons, closures_map,
                   termini_closure_lines, termini_upcoming_lines,
                   termini_operational_lines, clsVars, depVars, extVars>>

\* for terminus in sorted(termini_map.keys(), ...): the locals of one iteration
NextTerminus ==
    /\ st_pc = "loop"
    /\ terminus = NoTerminus
    /\ todo_termini # <<>>
    /\ terminus' = Head(todo_termini)
    /\ todo_termini' = Tail(todo_termini)
    /\ todo_routes' = RoutesOf(termini_map, Head(todo_termini))
    /\ rid' = NoRoute
    /\ status' = "Operational"
    /\ closure_reasons' = <<>>
    /\ last_scan' = [cls |-> "none"]
    /\ UNCHANGED <<st_pc, alerts, routes, termini_map, alert_idx, final_status,
                   final_reasons, closures_map, termini_closure_lines,
                   termini_upcoming_lines, termini_operational_lines, clsVars, depVars, extVars>>

\* for rid in associated_routes: a set, iterated in an order the program does not fix
NextRoute ==
    /\ st_pc = "loop"
    /\ terminus # NoTerminus
    /\ rid = NoRoute
    /\ \E r \in todo_routes :
          /\ rid' = r
          /\ todo_routes' = todo_routes \ {r}
    /\ alert_idx' = 1
    /\ UNCHANGED <<st_pc, alerts, routes, termini_map, todo_termini, terminus, status,
                   closure_reasons, last_scan, final_status, final_reasons, closures_map,
                   termini_closure_lines, termini_upcoming_lines,
                   termini_operational_lines, clsVars, depVars, extVars>>

\* the effect of one iteration of `for a in alerts_for_route` on status,
\* closure_reasons and the position in the list (left: the loop was left by break)
ScanEffect(a, cls, accepted, n) ==
    IF cls = "closure" /\ accepted
    THEN [status |-> "Current issues",
          reasons |-> Append(closure_reasons, ReasonText(a, rid)), next |-> n + 1]
    ELSE IF cls = "closure"
    THEN [status |-> status, reasons |-> closure_reasons, next |-> alert_idx + 1]
    ELSE IF cls = "upcoming" /\ status # "Current closure"
    THEN [status |-> "Upcoming closure", reasons |-> closure_reasons, next |-> alert_idx + 1]
    ELSE [status |-> status, reasons |-> closure_reasons, next |-> alert_idx + 1]

ScanStep(list, a, cls, accepted) ==
    /\ status' = ScanEffect(a, cls, accepted, Len(list)).status
    /\ closure_reasons' = ScanEffect(a, cls, accepted, Len(list)).reasons
    /\ alert_idx' = ScanEffect(a, cls, accepted, Len(list)).next
    /\ last_scan' = [cls |-> cls, a |-> a, accepted |-> cls = "closure" /\ accepted,
                     status_before |-> status, reasons_before |-> closure_reasons]

\* one iteration of `for a in alerts_for_route`: classify (each call reads
\* datetime.now() itself, line 291), guard, update
ScanAlert ==
    /\ st_pc = "loop"
    /\ terminus # NoTerminus
    /\ rid # NoRoute
    /\ alert_idx <= Len(alerts_for_route(alerts, rid))
    /\ ScanStep(alerts_for_route(alerts, rid),
                alerts_for_route(alerts, rid)[alert_idx],
                classify_alert_for_route(alerts_for_route(alerts, rid)[alert_idx], rid,
                                         wall_clock),
                RelevanceGuard(alerts_for_route(alerts, rid)[alert_idx], terminus))
    /\ labels_given' = labels_given \cup
           {[a |-> alerts_for_route(alerts, rid)[alert_idx],
             cls |-> classify_alert_for_route(alerts_for_route(alerts, rid)[alert_idx],
                                              rid, wall_clock)]}
    /\ UNCHANGED <<st_pc, alerts, routes, termini_map, todo_termini, terminus, todo_routes,
                   rid, final_status, final_reasons, closures_map, termini_closure_lines,
                   termini_upcoming_lines, termini_operational_lines, clsVars, depVars,
                   svcVars, refVars, cntVars, cycVars, perVars, wall_clock>>

\* the wall clock has moved on to `later` when the next classification reads it (the
\* loop reads the clock nowhere else)
ClockPasses(later) ==
    /\ st_pc = "loop"
    /\ terminus # NoTerminus
    /\ rid # NoRoute
    /\ alert_idx <= Len(alerts_for_route(alerts, rid))
    /\ wall_clock < later
    /\ wall_clock' = later
    /\ UNCHANGED <<clsVars, stVars, depVars, svcVars, refVars, cntVars, cycVars, perVars,
                   labels_given>>

\* the inner loop is over: `if status == "Current closure": break` leaves the loop
\* over the routes, otherwise the next route follows
EndRoute ==
    /\ st_pc = "loop"
    /\ terminus # NoTerminus
    /\ rid # NoRoute
    /\ alert_idx > Len(alerts_for_route(alerts, rid))
    /\ rid' = NoRoute
    /\ todo_routes' = IF status = "Current closure" THEN {} ELSE todo_routes
    /\ UNCHANGED <<st_pc, alerts, routes, termini_map, todo_termini, terminus, alert_idx,
                   status, closure_reasons, last_scan, final_status, final_reasons,
                   closures_map, termini_closure_lines, termini_upcoming_lines,
                   termini_operational_lines, clsVars, depVars, extVars>>

\* line = f"**{display_name}**: {emoji} {status}", kept as its terminus and status
LineOf(term, st) == [terminus |-> term, status |-> st]

\* the end of a terminus's iteration: closures_map and the three lists of lines
EndTerminus ==
    /\ st_pc = "loop"
    /\ terminus # NoTerminus
    /\ rid = NoRoute
    /\ todo_routes = {}
    /\ closures_map' = IF closure_reasons # <<>> /\ status = "Current closure"
                       THEN (terminus :> Dedupe(closure_reasons, {})) @@ closures_map
                       ELSE closures_map
    /\ termini_closure_lines' = IF status = "Current closure"
                                THEN Append(termini_closure_lines, LineOf(terminus, status))
                                ELSE termini_closure_lines
    /\ termini_upcoming_lines' = IF status # "Current closure" /\ status = "Upcoming Incident"
                                 THEN Append(termini_upcoming_lines, LineOf(terminus, status))
                                 ELSE termini_upcoming_lines
    /\ termini_operational_lines' =
           IF status # "Current closure" /\ status # "Upcoming Incident"
           THEN Append(termini_operational_lines, LineOf(terminus, status))
           ELSE termini_operational_lines
    /\ final_status' = (terminus :> status) @@ final_status
    /\ final_reasons' = (terminus :> closure_reasons) @@ final_reasons
    /\ terminus' = NoTerminus
    /\ UNCHANGED <<st_pc, alerts, routes, termini_map, todo_termini, todo_routes, rid,
                   alert_idx, status, closure_reasons, last_scan, clsVars, depVars, extVars>>

-----------------------------------------------------------------------------
(* track.py: the schedule tables and get_scheduled_departures *)

RECURSIVE DigitsOf(_)
\* str(n) of a natural number
DigitsOf(n) ==
    IF n < 10 THEN Char(Digits, n + 1)
    ELSE DigitsOf(n \div 10) \o Char(Digits, (n % 10) + 1)

RECURSIVE PadLeft(_, _)
\* zero padding of strftime's %Y, %m and %d
PadLeft(s, width) == IF Len(s) >= width THEN s ELSE PadLeft("0" \o s, width)

Weekdays == <<"monday", "tuesday", "wednesday", "thursday", "friday", "saturday", "sunday">>

\* date_obj.strftime('%A').lower(); day 0 (1970-01-01) was a Thursday
DayName(date) == Weekdays[((date + 3) % 7) + 1]

\* date_obj.strftime('%Y%m%d')
DateStr(date) ==
    PadLeft(DigitsOf(CivilFromDays(date).year), 4)
    \o PadLeft(DigitsOf(CivilFromDays(date).month), 2)
    \o PadLeft(DigitsOf(CivilFromDays(date).day), 2)

\* a <= b on str
StrLeq(a, b) == a = b \/ StrLess(a, b)

\* the service ids of the rows of `table` that satisfy the row test
ExceptionIds(table, date_str, type) ==
    {table[i].service_id : i \in {j \in 1..Len(table) :
        table[j].date = date_str /\ table[j].exception_type = type}}

CalendarIds(table, day_name, date_str) ==
    {table[i].service_id : i \in {j \in 1..Len(table) :
        /\ table[j][day_name] = "1"
        /\ StrLeq(table[j].start_date, date_str)
        /\ StrLeq(date_str, table[j].end_date)}}

\* the exceptions applied in the other order: an id added on the day survives its removal
ServiceIdsRemovalFirst(st, date) ==
    (CalendarIds(st.calendar, DayName(date), DateStr(date))
        \ ExceptionIds(st.calendar_dates, DateStr(date), "2"))
    \cup ExceptionIds(st.calendar_dates, DateStr(date), "1")

\* get_service_ids_for_day(date_obj) on the tables of `st`
get_service_ids_for_day(st, date) ==
    (CalendarIds(st.calendar, DayName(date), DateStr(date))
        \cup ExceptionIds(st.calendar_dates, DateStr(date), "1"))
    \ ExceptionIds(st.calendar_dates, DateStr(date), "2")

RECURSIVE Flatten(_)
Flatten(ss) == IF ss = <<>> THEN <<>> ELSE Head(ss) \o Flatten(Tail(ss))

\* the rows of `right` that join the row l of the left frame, l's columns added
MatchesOf(l, right, key) ==
    [j \in 1..Len(SelectSeq(right, LAMBDA r : r[key] = l[key])) |->
        l @@ SelectSeq(right, LAMBDA r : r[key] = l[key])[j]]

\* left.merge(right, on=key): an inner join that keeps the order of the left keys
Merge(left, right, key) == Flatten([i \in 1..Len(left) |-> MatchesOf(left[i], right, key)])

\* int(s) succeeds: optional blanks around an optional sign and decimal digits
IntParses(s) ==
    IF Strip(s) # "" /\ Char(Strip(s), 1) \in {"+", "-"}
    THEN AllDigits(SubSeq(Strip(s), 2, Len(Strip(s))))
    ELSE AllDigits(Strip(s))

IntOf(s) ==
    IF Char(Strip(s), 1) = "-" THEN 0 - ToInt(SubSeq(Strip(s), 2, Len(Strip(s))))
    ELSE IF Char(Strip(s), 1) = "+" THEN ToInt(SubSeq(Strip(s), 2, Len(Strip(s))))
    ELSE ToInt(Strip(s))

ClockSeconds(parts) == IntOf(parts[1]) * 3600 + IntOf(parts[2]) * 60 + IntOf(parts[3])

\* parse_arrival(time_str, day_start): <<the datetime>>, or <<>> for None when the
\* unpacking or an int() raises ValueError
parse_arrival(time_str, day_start) ==
    IF /\ Len(SplitFrom(time_str, ":", 1, 1)) = 3
       /\ \A k \in 1..3 : IntParses(SplitFrom(time_str, ":", 1, 1)[k])
    THEN <<day_start + ClockSeconds(SplitFrom(time_str, ":", 1, 1))>>
    ELSE <<>>

\* the column arrival_dt applied to a frame, the rows whose value is None dropped
\* (dropna(subset=['arrival_dt']) after the concat)
WithArrival(rows, day_start) ==
    Flatten([i \in 1..Len(rows) |->
        IF parse_arrival(rows[i].arrival_time, day_start) = <<>> THEN <<>>
        ELSE <<rows[i] @@ [arrival_dt |-> parse_arrival(rows[i].arrival_time, day_start)[1]]>>])

RECURSIVE WordRun(_, _)
WordRun(s, i) == IF i <= Len(s) /\ IsWordChar(Char(s, i)) THEN 1 + WordRun(s, i + 1) ELSE 0

\* the length of the literal "Platform" or "Stop" standing at position i, 0 if neither
LabelWordAt(s, i) ==
    IF i + 7 <= Len(s) /\ SubSeq(s, i, i + 7) = "Platform" THEN 8
    ELSE IF i + 3 <= Len(s) /\ SubSeq(s, i, i + 3) = "Stop" THEN 4
    ELSE 0

\* where group 1 of (?:Platform|Stop)\s*(\w+) starts for a match at position i
LabelGroupStart(s, i) == i + LabelWordAt(s, i) + SpaceRun(s, i + LabelWordAt(s, i))

LabelMatchAt(s, i) == LabelWordAt(s, i) > 0 /\ WordRun(s, LabelGroupStart(s, i)) > 0

\* (\d+)$ matches at position i
TailDigitsAt(s, i) == DigitRun(s, i) > 0 /\ i + DigitRun(s, i) - 1 = Len(s)

RECURSIVE PlatformFrom(_, _)
\* re.search from position i: the leftmost match, the first alternative tried first
PlatformFrom(s, i) ==
    IF i > Len(s) THEN "-"
    ELSE IF LabelMatchAt(s, i)
    THEN SubSeq(s, LabelGroupStart(s, i), LabelGroupStart(s, i) + WordRun(s, LabelGroupStart(s, i)) - 1)
    ELSE IF TailDigitsAt(s, i) THEN SubSeq(s, i, Len(s))
    ELSE PlatformFrom(s, i + 1)

get_platform(name) == PlatformFrom(name, 1)

WithPlatform(rows) ==
    [i \in 1..Len(rows) |-> rows[i] @@ [platform |-> get_platform(rows[i].stop_name)]]

\* stop_times[stop_times['stop_id'].isin(stop_ids)]
StopServices(st, ids) ==
    SelectSeq(st.stop_times, LAMBDA r : \E k \in 1..Len(ids) : ids[k] = r.stop_id)

\* trips[trips['service_id'].isin(service_ids)]
TripsOn(st, date) ==
    SelectSeq(st.trips, LAMBDA r : r.service_id \in get_service_ids_for_day(st, date))

\* services_<day>_df with its arrival_dt, for the service day `date`
ServicesOfDay(st, ids, date) ==
    WithArrival(Merge(StopServices(st, ids), TripsOn(st, date), "trip_id"), date * SecondsPerDay)

\* future_services: yesterday's rows, then today's, those not before now_local
FutureServices(st, ids, now) ==
    SelectSeq(ServicesOfDay(st, ids, DateOf(now) - 1) \o ServicesOfDay(st, ids, DateOf(now)),
              LAMBDA r : r.arrival_dt >= now)

\* get_scheduled_departures(stop_ids, now_local)
get_scheduled_departures(st, ids, now) ==
    WithPlatform(Merge(Merge(FutureServices(st, ids, now), st.routes, "route_id"),
                       st.stops, "stop_id"))

-----------------------------------------------------------------------------
(* track.py: get_next_services *)

\* f"{trip_id}-{stop_id}"
service_key(trip_id, stop_id) == trip_id \o "-" \o stop_id

\* the dict entry built from a row of scheduled_df
RecordOf(row) ==
    [scheduled_time |-> row.arrival_dt, eta_time |-> row.arrival_dt,
     route_name |-> row.route_short_name, destination |-> row.trip_headsign,
     is_realtime |-> FALSE, route_color |-> row.route_color, platform |-> row.platform]

\* a dict is the sequence of its [key, rec] entries in insertion order
Keys(d) == {d[i].key : i \in 1..Len(d)}
IndexOfKey(d, k) == CHOOSE i \in 1..Len(d) : d[i].key = k

\* d[k] = v
DictSet(d, k, v) ==
    IF k \in Keys(d) THEN [d EXCEPT ![IndexOfKey(d, k)] = [key |-> k, rec |-> v]]
    ELSE Append(d, [key |-> k, rec |-> v])

RECURSIVE ServicesFrom(_, _)
\* scheduled_services after the first n rows of scheduled_df
ServicesFrom(df, n) ==
    IF n = 0 THEN <<>>
    ELSE DictSet(ServicesFrom(df, n - 1), service_key(df[n].trip_id, df[n].stop_id), RecordOf(df[n]))

\* the (trip_id, stop_time_update) pairs of the feed in iteration order
UpdatesOfEntity(e) ==
    IF e.has_trip_update
    THEN [j \in 1..Len(e.stop_time_update) |-> [trip_id |-> e.trip_id, stu |-> e.stop_time_update[j]]]
    ELSE <<>>

Updates(f) == Flatten([i \in 1..Len(f) |-> UpdatesOfEntity(f[i])])

\* stu.arrival.time if stu.HasField('arrival') else stu.departure.time
arrival_ts(stu) == IF stu.has_arrival THEN stu.arrival_time ELSE stu.departure_time

\* the record with the live instant put in
Overridden(rec, ts) == [rec EXCEPT !.eta_time = ts, !.is_realtime = TRUE]

\* one iteration of the stop_time_update loop; m = [raised, services]
ApplyUpdate(m, u, utc) ==
    IF m.raised \/ service_key(u.trip_id, u.stu.stop_id) \notin Keys(m.services) THEN m
    ELSE IF arrival_ts(u.stu) = 0 THEN m
    ELSE IF FromTimestampRaises(arrival_ts(u.stu)) THEN [m EXCEPT !.raised = TRUE]
    ELSE IF arrival_ts(u.stu) >= utc
    THEN [m EXCEPT !.services[IndexOfKey(m.services, service_key(u.trip_id, u.stu.stop_id))].rec =
              Overridden(@, arrival_ts(u.stu))]
    ELSE m

RECURSIVE MergeFeed(_, _, _, _)
\* the merge loop over the first n updates
MergeFeed(services, ups, n, utc) ==
    IF n = 0 THEN [raised |-> FALSE, services |-> services]
    ELSE ApplyUpdate(MergeFeed(services, ups, n - 1, utc), ups[n], utc)

RECURSIVE InsertByScheduled(_, _)
InsertByScheduled(x, sorted) ==
    IF sorted = <<>> THEN <<x>>
    ELSE IF x.scheduled_time < Head(sorted).scheduled_time THEN <<x>> \o sorted
    ELSE <<Head(sorted)>> \o InsertByScheduled(x, Tail(sorted))

RECURSIVE SortedByScheduled(_)
\* a sort on the timetable's instant, which ignores the live override
SortedByScheduled(recs) ==
    IF recs = <<>> THEN <<>>
    ELSE InsertByScheduled(recs[Len(recs)], SortedByScheduled(SubSeq(recs, 1, Len(recs) - 1)))

RECURSIVE InsertByEta(_, _)
InsertByEta(x, sorted) ==
    IF sorted = <<>> THEN <<x>>
    ELSE IF x.eta_time < Head(sorted).eta_time THEN <<x>> \o sorted
    ELSE <<Head(sorted)>> \o InsertByEta(x, Tail(sorted))

RECURSIVE SortedByEta(_)
\* sorted(records, key=lambda x: x['eta_time']), a stable sort
SortedByEta(recs) ==
    IF recs = <<>> THEN <<>>
    ELSE InsertByEta(recs[Len(recs)], SortedByEta(SubSeq(recs, 1, Len(recs) - 1)))

Values(d) == [i \in 1..Len(d) |-> d[i].rec]

\* lst[:n]
Slice(lst, n) ==
    IF n >= 0 THEN SubSeq(lst, 1, IF n < Len(lst) THEN n ELSE Len(lst))
    ELSE SubSeq(lst, 1, IF Len(lst) + n > 0 THEN Len(lst) + n ELSE 0)

\* stop_real_name: the name of stop_ids[0] in stops, else "Unknown Stop"
StopRealName(st, ids) ==
    IF SelectSeq(st.stops, LAMBDA r : r.stop_id = ids[1]) = <<>> THEN "Unknown Stop"
    ELSE SelectSeq(st.stops, LAMBDA r : r.stop_id = ids[1])[1].stop_name

\* the module's tables before any load has succeeded: stops, stop_times, ... = None
UnsetStore == [loaded |-> FALSE]

\* get_next_services up to its await: the early return, the TypeError of
\* stops[stops['stop_id'] == ...] on a table that is None, or the baseline built
CallNextServices(ids, count, clock) ==
    /\ dep_pc = "call"
    /\ stop_ids' = ids
    /\ service_count' = count
    /\ IF ids = <<>>
       THEN /\ dep_result' = [kind |-> "none", records |-> <<>>, name |-> "No stop IDs provided."]
            /\ dep_pc' = "returned"
            /\ UNCHANGED <<dep_now, scheduled_df, scheduled_services>>
       ELSE IF ~store.loaded
       THEN /\ dep_result' = [kind |-> "raised", records |-> <<>>, name |-> ""]
            /\ dep_pc' = "returned"
            /\ UNCHANGED <<dep_now, scheduled_df, scheduled_services>>
       ELSE /\ dep_now' = clock
            /\ scheduled_df' = get_scheduled_departures(store, ids, clock)
            /\ scheduled_services' = ServicesFrom(scheduled_df', Len(scheduled_df'))
            /\ dep_pc' = "fetching"
            /\ UNCHANGED dep_result
    /\ UNCHANGED <<store, feed, fetch_outcome, now_utc, clsVars, stVars, extVars>>

\* the GET answered 200 and the body parsed, `elapsed` seconds after now_local was read
FetchOk(f, elapsed) ==
    /\ dep_pc = "fetching"
    /\ feed' = f
    /\ fetch_outcome' = "ok"
    /\ now_utc' = dep_now + elapsed
    /\ dep_pc' = "fetched"
    /\ UNCHANGED <<store, dep_now, service_count, stop_ids, scheduled_df,
                   scheduled_services, dep_result, clsVars, stVars, extVars>>

\* what can go wrong before the body is parsed: the GET raises, or answers a status
\* other than 200
FetchFailures == {"unreachable", "status"}

\* a non-200 status, or an exception raised by the GET and caught around the fetch:
\* ParseFromString was not called and the FeedMessage stays as constructed
FetchFails(why, elapsed) ==
    /\ dep_pc = "fetching"
    /\ feed' = <<>>
    /\ fetch_outcome' = why
    /\ now_utc' = dep_now + elapsed
    /\ dep_pc' = "fetch_failed"
    /\ UNCHANGED <<store, dep_now, service_count, stop_ids, scheduled_df,
                   scheduled_services, dep_result, clsVars, stVars, extVars>>

\* the entities a FeedMessage can hold once ParseFromString has raised on a body whose
\* well-formed part encodes `body`: the parser fills the message as it reads and leaves
\* what it had decoded, so any leading part of the body's entities, none and all included
EntitiesAfterDecodeError(body) == {SubSeq(body, 1, k) : k \in 0..Len(body)}

\* the GET answered 200 and feed.ParseFromString(data) raised; the exception is caught
\* (713) and the merge loop then reads the message the parser left behind
FetchUnparsable(kept, elapsed) ==
    /\ dep_pc = "fetching"
    /\ feed' = kept
    /\ fetch_outcome' = "unparsable"
    /\ now_utc' = dep_now + elapsed
    /\ dep_pc' = "fetch_failed"
    /\ UNCHANGED <<store, dep_now, service_count, stop_ids, scheduled_df,
                   scheduled_services, dep_result, clsVars, stVars, extVars>>

\* the merge loop, the sort and the slice
MergeAndReturn ==
    /\ dep_pc \in {"fetched", "fetch_failed"}
    /\ scheduled_services' =
          MergeFeed(scheduled_services, Updates(feed), Len(Updates(feed)), now_utc).services
    /\ dep_result' =
          IF MergeFeed(scheduled_services, Updates(feed), Len(Updates(feed)), now_utc).raised
          THEN [kind |-> "raised", records |-> <<>>, name |-> ""]
          ELSE [kind |-> "list",
                records |-> Slice(SortedByEta(Values(scheduled_services')), service_count),
                name |-> StopRealName(store, stop_ids)]
    /\ dep_pc' = "returned"
    /\ UNCHANGED <<store, dep_now, now_utc, service_count, stop_ids, scheduled_df, feed,
                   fetch_outcome, clsVars, stVars, extVars>>

-----------------------------------------------------------------------------
(* track.py: one call of get_service_ids_for_day *)

\* the call on the published tables; calendar[...] on a table that is None raises
GetServiceIds(d) ==
    /\ svc_pc = "call"
    /\ date_obj' = d
    /\ IF store.loaded
       THEN /\ service_ids' = get_service_ids_for_day(store, d)
            /\ svc_pc' = "returned"
       ELSE /\ service_ids' = {}
            /\ svc_pc' = "raised"
    /\ UNCHANGED <<clsVars, stVars, depVars, refVars, cntVars, cycVars, perVars, clockVars>>

-----------------------------------------------------------------------------
(* track.py, bot.py: the schedule store through refreshes.  A download is      *)
(* known by its number; a table or index is known by the download it was      *)
(* computed from.                                                             *)

\* the updater's downloads that are followed
MaxDownloads == 2

\* an index that is {} (or None), and tables that are None
Empty == 0

\* a read that has not happened
NotRead == 0 - 1

\* the columns whose absence makes an index fall back
IndexColumns == {"trip_headsign", "route_type", "arrival_time"}

\* the store before any load: the globals as initialised at 21-31
UnsetSnapshot ==
    [loaded |-> FALSE, version |-> Empty, missing |-> {}, trip_lookup |-> Empty,
     route_lookup |-> Empty, trip_to_route_type |-> Empty, route_short_to_ids |-> Empty,
     trip_bounds_with_type |-> Empty]

\* build_trip_time_bounds on freshly published tables: None when stop_times lacks
\* arrival_time or routes lacks route_type (the except at 230)
build_trip_time_bounds(dir) ==
    IF {"arrival_time", "route_type"} \cap dir.missing # {} THEN Empty ELSE dir.version

\* load_gtfs_data(): the store it leaves, from the directory and the store before.
\* A read_csv that raises returns before anything is assigned; otherwise the six
\* tables are assigned, then each index is built in its own try with {} as fallback.
load_gtfs_data(dir, old) ==
    IF ~dir.readable THEN old
    ELSE [loaded |-> TRUE, version |-> dir.version, missing |-> dir.missing,
          trip_lookup |-> IF "trip_headsign" \in dir.missing THEN Empty ELSE dir.version,
          route_lookup |-> dir.version,
          trip_to_route_type |-> IF "route_type" \in dir.missing THEN Empty ELSE dir.version,
          route_short_to_ids |-> dir.version,
          trip_bounds_with_type |-> build_trip_time_bounds(dir)]

\* auto_update_gtfs_daily wakes and sends the GET for the static feed
UpdateFetch ==
    /\ upd_pc = "sleeping"
    /\ gtfs_dir.version <= MaxDownloads
    /\ upd_pc' = "fetching"
    /\ UNCHANGED <<store, gtfs_dir, bot_routes, cyc_pc, cyc_reads, qry_pc, qry_reads>>
    /\ UNCHANGED <<clsVars, stVars, dep_now, now_utc, service_count, stop_ids, dep_pc,
                   scheduled_df, scheduled_services, feed, fetch_outcome, dep_result, svcVars,
                   cntVars, cycVars, perVars, clockVars>>

\* a status other than 200, an exception of the GET, or a zip that does not extract:
\* the directory and the store are left alone
UpdateFails ==
    /\ upd_pc = "fetching"
    /\ upd_pc' = "sleeping"
    /\ UNCHANGED <<store, gtfs_dir, bot_routes, cyc_pc, cyc_reads, qry_pc, qry_reads>>
    /\ UNCHANGED <<clsVars, stVars, dep_now, now_utc, service_count, stop_ids, dep_pc,
                   scheduled_df, scheduled_services, feed, fetch_outcome, dep_result, svcVars,
                   cntVars, cycVars, perVars, clockVars>>

\* the zip extracted: the directories are swapped and load_gtfs_data() runs, all in
\* one stretch without an await
UpdateSwapAndLoad(readable, missing) ==
    /\ upd_pc = "fetching"
    /\ gtfs_dir' = [version |-> gtfs_dir.version + 1, readable |-> readable, missing |-> missing]
    /\ store' = load_gtfs_data(gtfs_dir', store)
    /\ upd_pc' = "sleeping"
    /\ UNCHANGED <<bot_routes, cyc_pc, cyc_reads, qry_pc, qry_reads>>
    /\ UNCHANGED <<clsVars, stVars, dep_now, now_utc, service_count, stop_ids, dep_pc,
                   scheduled_df, scheduled_services, feed, fetch_outcome, dep_result, svcVars,
                   cntVars, cycVars, perVars, clockVars>>

\* build_status_message is called and awaits the alert feed
CycleStart ==
    /\ cyc_pc \in {"idle", "done"}
    /\ cyc_pc' = "alerts"
    /\ cyc_reads' = [topology |-> NotRead, routes_today |-> NotRead, counts_map |-> NotRead,
                     counts_routes |-> NotRead]
    /\ UNCHANGED <<store, gtfs_dir, bot_routes, upd_pc, qry_pc, qry_reads>>
    /\ UNCHANGED <<clsVars, stVars, dep_now, now_utc, service_count, stop_ids, dep_pc,
                   scheduled_df, scheduled_services, feed, fetch_outcome, dep_result, svcVars,
                   cntVars, cycVars, perVars, clockVars>>

\* the alerts are in: the terminus map is built from bot.py's routes (464-495), the
\* loop runs, get_routes_operating_today reads track.py's tables (654), and the
\* cycle awaits the vehicle positions
CycleEvaluate ==
    /\ cyc_pc = "alerts"
    /\ cyc_reads' = [cyc_reads EXCEPT !.topology = bot_routes, !.routes_today = store.version]
    /\ cyc_pc' = "positions"
    /\ UNCHANGED <<store, gtfs_dir, bot_routes, upd_pc, qry_pc, qry_reads>>
    /\ UNCHANGED <<clsVars, stVars, dep_now, now_utc, service_count, stop_ids, dep_pc,
                   scheduled_df, scheduled_services, feed, fetch_outcome, dep_result, svcVars,
                   cntVars, cycVars, perVars, clockVars>>

\* local_map of get_rtt_vehicle_counts: the published index, or when that is empty
\* the one built on the fly from trips and routes (140-147)
LocalMapOf(st) ==
    IF st.trip_to_route_type # Empty THEN st.trip_to_route_type
    ELSE IF st.loaded /\ "route_type" \notin st.missing THEN st.version
    ELSE Empty

\* the position feed answered: get_rtt_vehicle_counts reads trip_to_route_type, trips
\* and routes after its await (139-162); on a failed fetch it has returned before
CycleCounts(fetched) ==
    /\ cyc_pc = "positions"
    /\ cyc_reads' = IF fetched
                    THEN [cyc_reads EXCEPT !.counts_map = LocalMapOf(store),
                                           !.counts_routes = store.version]
                    ELSE cyc_reads
    /\ cyc_pc' = "done"
    /\ UNCHANGED <<store, gtfs_dir, bot_routes, upd_pc, qry_pc, qry_reads>>
    /\ UNCHANGED <<clsVars, stVars, dep_now, now_utc, service_count, stop_ids, dep_pc,
                   scheduled_df, scheduled_services, feed, fetch_outcome, dep_result, svcVars,
                   cntVars, cycVars, perVars, clockVars>>

\* get_next_services up to its await: stops, and the tables get_scheduled_departures
\* joins, are read in one stretch (679-685)
QueryStart ==
    /\ qry_pc \in {"idle", "done"}
    /\ qry_reads' = [baseline |-> store.version, merge |-> NotRead]
    /\ qry_pc' = "fetching"
    /\ UNCHANGED <<store, gtfs_dir, bot_routes, upd_pc, cyc_pc, cyc_reads>>
    /\ UNCHANGED <<clsVars, stVars, dep_now, now_utc, service_count, stop_ids, dep_pc,
                   scheduled_df, scheduled_services, feed, fetch_outcome, dep_result, svcVars,
                   cntVars, cycVars, perVars, clockVars>>

\* the trip updates are in: the merge loop, the sort and the slice work on the dict
\* built before the await and read no table (716-737)
QueryReturn ==
    /\ qry_pc = "fetching"
    /\ qry_reads' = [qry_reads EXCEPT !.merge = qry_reads.baseline]
    /\ qry_pc' = "done"
    /\ UNCHANGED <<store, gtfs_dir, bot_routes, upd_pc, cyc_pc, cyc_reads>>
    /\ UNCHANGED <<clsVars, stVars, dep_now, now_utc, service_count, stop_ids, dep_pc,
                   scheduled_df, scheduled_services, feed, fetch_outcome, dep_result, svcVars,
                   cntVars, cycVars, perVars, clockVars>>

-----------------------------------------------------------------------------
(* track.py: get_routes_operating_today and get_rtt_vehicle_counts.  A cell   *)
(* that is empty in the file is NaN in the frame and "nan" once str() is      *)
(* applied; the tables hold "nan" for it.                                     *)

\* get_routes_operating_today(date_obj): the distinct routes of the trips whose
\* service runs on the date; 0 when trips is None or no service runs
get_routes_operating_today(st, date) ==
    IF ~st.loaded THEN 0
    ELSE IF get_service_ids_for_day(st, date) = {} THEN 0
    ELSE Cardinality({st.trips[i].route_id : i \in {j \in 1..Len(st.trips) :
             st.trips[j].service_id \in get_service_ids_for_day(st, date)}})

ZeroCounts == [trains |-> 0, buses |-> 0, trams |-> 0]

\* the rows of routes that put a type under the key `id` in route_type_by_id
TypedRows(st, id) ==
    SelectSeq(st.routes, LAMBDA r :
        Strip(r.route_id) # "" /\ Strip(r.route_id) = id /\ Strip(r.route_type) # "")

\* route_type_by_id.get(id), "" standing for None: the last row written wins
RouteTypeById(st, id) ==
    IF ~st.loaded \/ TypedRows(st, id) = <<>> THEN ""
    ELSE Strip(TypedRows(st, id)[Len(TypedRows(st, id))].route_type)

\* the route_type column of trips.merge(routes[[route_id, route_type]], how="left")
\* for a row of trips, after astype(str): "nan" when no route matches
MergedTypes(st, trip) ==
    IF SelectSeq(st.routes, LAMBDA r : r.route_id = trip.route_id) = <<>> THEN <<"nan">>
    ELSE [k \in 1..Len(SelectSeq(st.routes, LAMBDA r : r.route_id = trip.route_id)) |->
             SelectSeq(st.routes, LAMBDA r : r.route_id = trip.route_id)[k].route_type]

\* local_map.get(tid), "" standing for None: to_dict keeps the last row of a trip id
TripToRouteType(st, tid) ==
    IF ~st.loaded \/ SelectSeq(st.trips, LAMBDA t : t.trip_id = tid) = <<>> THEN ""
    ELSE MergedTypes(st, SelectSeq(st.trips, LAMBDA t : t.trip_id = tid)
                             [Len(SelectSeq(st.trips, LAMBDA t : t.trip_id = tid))])
            [Len(MergedTypes(st, SelectSeq(st.trips, LAMBDA t : t.trip_id = tid)
                                     [Len(SelectSeq(st.trips, LAMBDA t : t.trip_id = tid))]))]

\* vid = vp.vehicle.id or vp.vehicle.label or tid or rid
VehicleKey(vp) ==
    IF vp.vehicle_id # "" THEN vp.vehicle_id
    ELSE IF vp.label # "" THEN vp.label
    ELSE IF vp.trip_id # "" THEN vp.trip_id
    ELSE vp.route_id

\* rtype: by the report's route id first, else by its trip id when the map is not empty
ModeOf(st, vp) ==
    IF vp.route_id # "" /\ RouteTypeById(st, Strip(vp.route_id)) # ""
    THEN RouteTypeById(st, Strip(vp.route_id))
    ELSE IF vp.trip_id # "" /\ st.loaded /\ st.trips # <<>>
    THEN TripToRouteType(st, vp.trip_id)
    ELSE ""

\* seen_train, seen_bus, seen_tram: one set of vehicle keys per mode
Seen(st, f, rtype) ==
    {VehicleKey(f[i]) : i \in {j \in 1..Len(f) :
        f[j].has_vehicle /\ VehicleKey(f[j]) # "" /\ ModeOf(st, f[j]) = rtype}}

\* the counts of get_rtt_vehicle_counts on a parsed feed
CountsOf(st, f) ==
    [trains |-> Cardinality(Seen(st, f, "2")), buses |-> Cardinality(Seen(st, f, "3")),
     trams |-> Cardinality(Seen(st, f, "0"))]

\* get_rtt_vehicle_counts(): zero counts when the GET fails, answers a status other
\* than 200 or the body does not parse (the function returns inside the except)
get_rtt_vehicle_counts(st, outcome, f) ==
    IF outcome = "ok" THEN CountsOf(st, f) ELSE ZeroCounts

RECURSIVE ScanRouteAlerts(_, _, _, _, _, _)
\* the loop `for a in alerts_for_route` of one route as a function, from the i-th
\* alert on: acc holds status and closure_reasons; an accepted closure leaves the loop
ScanRouteAlerts(list, i, term, route, acc, clock) ==
    IF i > Len(list) THEN acc
    ELSE IF classify_alert_for_route(list[i], route, clock) = "closure"
            /\ RelevanceGuard(list[i], term)
    THEN [status |-> "Current issues",
          reasons |-> Append(acc.reasons, ReasonText(list[i], route))]
    ELSE IF classify_alert_for_route(list[i], route, clock) = "upcoming"
            /\ acc.status # "Current closure"
    THEN ScanRouteAlerts(list, i + 1, term, route,
                         [status |-> "Upcoming closure", reasons |-> acc.reasons], clock)
    ELSE ScanRouteAlerts(list, i + 1, term, route, acc, clock)

RECURSIVE ScanRoutesInOrder(_, _, _, _, _, _)
\* the loop `for rid in associated_routes` when the set is iterated in `order`, from
\* its k-th route on; `if status == "Current closure": break` after each route
ScanRoutesInOrder(order, k, term, acc, feed_alerts, clock) ==
    IF k > Len(order) THEN acc
    ELSE IF ScanRouteAlerts(alerts_for_route(feed_alerts, order[k]), 1, term, order[k],
                            acc, clock).status = "Current closure"
    THEN ScanRouteAlerts(alerts_for_route(feed_alerts, order[k]), 1, term, order[k], acc, clock)
    ELSE ScanRoutesInOrder(order, k + 1, term,
                           ScanRouteAlerts(alerts_for_route(feed_alerts, order[k]), 1, term,
                                           order[k], acc, clock),
                           feed_alerts, clock)

\* status and closure_reasons of a terminus at the end of its iteration, its routes
\* iterated in `order`, every classification reading `clock`
TerminusOutcome(term, order, feed_alerts, clock) ==
    ScanRoutesInOrder(order, 1, term, [status |-> "Operational", reasons |-> <<>>],
                      feed_alerts, clock)

\* terminus_lines = termini_closure_lines + termini_upcoming_lines +
\* termini_operational_lines, the lines of the Services section
terminus_lines ==
    termini_closure_lines \o termini_upcoming_lines \o termini_operational_lines

\* the end of build_status_message (650-661 and the return): routes_today, then the
\* awaited vehicle counts, each in a try that keeps the default on an exception
ReturnStats(outcome, f) ==
    /\ st_pc = "loop"
    /\ terminus = NoTerminus
    /\ todo_termini = <<>>
    /\ routes_today' = get_routes_operating_today(store, DateOf(now_local))
    /\ pos_fetch' = outcome
    /\ positions' = IF outcome = "ok" THEN f ELSE <<>>
    /\ rtt_counts' = get_rtt_vehicle_counts(store, outcome, f)
    /\ st_pc' = "returned"
    /\ UNCHANGED <<alerts, routes, termini_map, todo_termini, terminus, todo_routes, rid,
                   alert_idx, status, closure_reasons, last_scan, final_status,
                   final_reasons, closures_map, termini_closure_lines,
                   termini_upcoming_lines, termini_operational_lines, alert_fetch, cnt_pc,
                   clsVars, depVars, svcVars, refVars, perVars, clockVars>>

\* one call, from the GET to the return
CountVehicles(outcome, f) ==
    /\ cnt_pc = "call"
    /\ pos_fetch' = outcome
    /\ positions' = IF outcome = "ok" THEN f ELSE <<>>
    /\ rtt_counts' = get_rtt_vehicle_counts(store, outcome, f)
    /\ cnt_pc' = "returned"
    /\ UNCHANGED <<clsVars, stVars, depVars, svcVars, refVars, cycVars, perVars, clockVars>>

-----------------------------------------------------------------------------
(* The variables of a part of the program that a specification leaves alone *)

ClsIdle ==
    /\ alert = [active_period |-> <<>>, header_text |-> <<>>, description_text |-> <<>>,
                effect |-> "UNKNOWN_EFFECT", informed_entity |-> <<>>]
    /\ now_local = 0
    /\ cls_pc = "idle"
    /\ cls_flags = [active |-> FALSE, upcoming |-> FALSE, has_period |-> FALSE,
                    raised |-> FALSE]
    /\ cls_result = ""

StIdle ==
    /\ st_pc = "idle"
    /\ alerts = <<>>
    /\ routes = <<>>
    /\ termini_map = <<>>
    /\ todo_termini = <<>>
    /\ terminus = NoTerminus
    /\ todo_routes = {}
    /\ rid = NoRoute
    /\ alert_idx = 1
    /\ status = ""
    /\ closure_reasons = <<>>
    /\ last_scan = [cls |-> "none"]
    /\ final_status = <<>>
    /\ final_reasons = <<>>
    /\ closures_map = <<>>
    /\ termini_closure_lines = <<>>
    /\ termini_upcoming_lines = <<>>
    /\ termini_operational_lines = <<>>

DepIdle ==
    /\ store = UnsetStore
    /\ dep_now = 0
    /\ now_utc = 0
    /\ service_count = 0
    /\ stop_ids = <<>>
    /\ dep_pc = "idle"
    /\ scheduled_df = <<>>
    /\ scheduled_services = <<>>
    /\ feed = <<>>
    /\ fetch_outcome = "none"
    /\ dep_result = [kind |-> "none", records |-> <<>>, name |-> ""]

SvcIdle ==
    /\ svc_pc = "idle"
    /\ date_obj = 0
    /\ service_ids = {}

CycIdle ==
    /\ alert_fetch = "none"
    /\ routes_today = 0

PerIdle ==
    /\ per_pc = "idle"
    /\ current_period = ""

ClockIdle ==
    /\ wall_clock = 0
    /\ labels_given = {}

CntIdle ==
    /\ cnt_pc = "idle"
    /\ pos_fetch = "none"
    /\ positions = <<>>
    /\ rtt_counts = ZeroCounts

RefIdle ==
    /\ gtfs_dir = [version |-> Empty, readable |-> FALSE, missing |-> {}]
    /\ bot_routes = Empty
    /\ upd_pc = "idle"
    /\ cyc_pc = "off"
    /\ cyc_reads = [topology |-> NotRead, routes_today |-> NotRead, counts_map |-> NotRead,
                    counts_routes |-> NotRead]
    /\ qry_pc = "off"
    /\ qry_reads = [baseline |-> NotRead, merge |-> NotRead]

-----------------------------------------------------------------------------
(* Specification SpecClassify: classify_alert_for_route on every alert of a    *)
(* bounded family                                                              *)

\* most active-period windows of an alert
MaxPeriods == 2

\* the instants datetime.now() returns: 2024-03-01 12:00:00
ClsClock == {1709294400}

\* the windows of an alert: without stamps; open-ended and started; expired; holding
\* now; holding now with an end datetime cannot represent; without a start; starting at
\* the edge of the look-ahead; starting beyond it; starting soon with an unrepresentable end
ClsPeriods(now) ==
    {[start |-> 0, end |-> 0],
     [start |-> now - 3600, end |-> 0],
     [start |-> now - 3600, end |-> now - 1],
     [start |-> now - 3600, end |-> now + 3600],
     [start |-> now - 3600, end |-> OUT_OF_RANGE],
     [start |-> 0, end |-> now + 3600],
     [start |-> now + DAYS_AHEAD * SecondsPerDay, end |-> 0],
     [start |-> now + DAYS_AHEAD * SecondsPerDay + 1, end |-> 0],
     [start |-> now + 3600, end |-> OUT_OF_RANGE]}

SeqsUpTo(S, n) == UNION {[1..k -> S] : k \in 0..n}

ClsHeaders == {<<>>, <<"Minor delays">>, <<"No Trains Friday">>, <<"Works from 5 March">>,
               <<"Lift outage since 29 Feb 2020">>}
ClsDescriptions == {<<>>, <<"Bus replacement in place">>}
ClsEffects == {"UNKNOWN_EFFECT", "DETOUR"}

ClsAlerts(now) ==
    [active_period : SeqsUpTo(ClsPeriods(now), MaxPeriods),
     header_text : ClsHeaders, description_text : ClsDescriptions,
     effect : ClsEffects, informed_entity : {<<"R">>}]

ClsInit ==
    /\ now_local \in ClsClock
    /\ alert \in ClsAlerts(now_local)
    /\ cls_pc = "call"
    /\ cls_flags = [active |-> FALSE, upcoming |-> FALSE, has_period |-> FALSE,
                    raised |-> FALSE]
    /\ cls_result = ""
    /\ StIdle
    /\ DepIdle
    /\ SvcIdle
    /\ RefIdle
    /\ CntIdle
    /\ CycIdle
    /\ PerIdle
    /\ ClockIdle

\* one call of classify_alert_for_route, from its first line to its return
ClassifyCall ==
    /\ cls_pc = "call"
    /\ cls_flags' = TimingFlags(alert, now_local)
    /\ cls_result' = classify_alert_for_route(alert, "R", now_local)
    /\ cls_pc' = "returned"
    /\ UNCHANGED <<alert, now_local, stVars, depVars, extVars>>

ClsNext == ClassifyCall

SpecClassify == ClsInit /\ [][ClsNext]_vars

-----------------------------------------------------------------------------
(* Specification SpecStatus: one evaluation cycle of build_status_message over *)
(* every alert feed of a bounded family                                        *)

\* most alerts in a feed
MaxAlerts == 2

\* 2024-03-01 12:00:00
StClock == 19783 * SecondsPerDay + 12 * 3600

StRoutes ==
    <<[route_id |-> "R1", route_short_name |-> "BNVL",
       route_long_name |-> "Varsity Lakes - Airport", route_type |-> "2"],
      [route_id |-> "R2", route_short_name |-> "VLBN",
       route_long_name |-> "Airport to Varsity Lakes", route_type |-> "2"],
      [route_id |-> "R3", route_short_name |-> "m1 ",
       route_long_name |-> "Metro One", route_type |-> "3"],
      [route_id |-> "R4", route_short_name |-> "60",
       route_long_name |-> "City/Valley", route_type |-> "3"]>>

ActiveNow == <<[start |-> StClock - 3600, end |-> StClock + 3600]>>
StartsTomorrow == <<[start |-> StClock + SecondsPerDay, end |-> 0]>>

StAlert(periods, header, desc, effect, informed) ==
    [active_period |-> periods, header_text |-> header, description_text |-> desc,
     effect |-> effect, informed_entity |-> informed]

StAlertCatalogue ==
    {StAlert(ActiveNow, <<"Gold Coast line track closure">>, <<>>, "UNKNOWN_EFFECT", <<"R1">>),
     StAlert(ActiveNow, <<"Gold Coast line track closure">>, <<>>, "UNKNOWN_EFFECT", <<"R2">>),
     StAlert(StartsTomorrow, <<"Planned works">>, <<>>, "UNKNOWN_EFFECT", <<"R1">>),
     StAlert(StartsTomorrow, <<"Planned works">>, <<>>, "UNKNOWN_EFFECT", <<"R2 ">>),
     StAlert(ActiveNow, <<"No trains on all lines">>, <<>>, "NO_SERVICE", <<"R2">>),
     StAlert(ActiveNow, <<>>, <<"Buses replace trains">>, "DETOUR", <<"R1", "", "R2">>),
     StAlert(ActiveNow, <<"Track closure at airport">>, <<>>, "UNKNOWN_EFFECT", <<"R2">>),
     StAlert(ActiveNow, <<"Minor delays">>, <<>>, "UNKNOWN_EFFECT", <<"R1">>)}

StFeeds == SeqsUpTo(StAlertCatalogue, MaxAlerts)

-----------------------------------------------------------------------------
(* Specification SpecDep: get_next_services over a family of timetables,       *)
(* queries and trip-update feeds                                               *)

\* most entities in a trip-update feed
MaxEntities == 2

\* 2024-03-01 00:00:00, a Friday
DepMidnight == 19783 * SecondsPerDay

\* the instants now_local reads: 00:30, when yesterday's trips are still running,
\* and 12:00
DepClocks == {DepMidnight + 1800, DepMidnight + 12 * 3600}

\* seconds between the reading of now_local and that of now_utc
FetchElapsed == {0, 10}

CalendarRow(id, days, first, last) ==
    [d \in {Weekdays[k] : k \in 1..7} |-> IF d \in days THEN "1" ELSE "0"]
    @@ [service_id |-> id, start_date |-> first, end_date |-> last]

\* WK runs both days; FRI today only; HOL yesterday only (removed today by an
\* exception); XTR today only (added by an exception); OLD on neither (expired)
DepCalendar ==
    <<CalendarRow("WK", {"monday", "tuesday", "wednesday", "thursday", "friday"}, "20240101", "20241231"),
      CalendarRow("FRI", {"friday"}, "20240101", "20241231"),
      CalendarRow("HOL", {"thursday", "friday"}, "20240101", "20241231"),
      CalendarRow("OLD", {"thursday", "friday"}, "20230101", "20240131")>>

DepCalendarDates ==
    <<[service_id |-> "HOL", date |-> "20240301", exception_type |-> "2"],
      [service_id |-> "XTR", date |-> "20240301", exception_type |-> "1"],
      [service_id |-> "OLD", date |-> "20240302", exception_type |-> "1"]>>

DepServices == {"WK", "FRI", "HOL", "XTR", "OLD"}

TripRow(id, svc, headsign) ==
    [trip_id |-> id, service_id |-> svc, route_id |-> "R", trip_headsign |-> headsign]

StopTimeRow(trip, stop, time) == [trip_id |-> trip, stop_id |-> stop, arrival_time |-> time]

\* a late-night trip "a-b" on service svc, a small-hours trip, a trip whose time does
\* not parse and, when asked, a trip "a" calling at stop "b-c"
Timetable(svc, with_a) ==
    [loaded |-> TRUE,
     calendar |-> DepCalendar,
     calendar_dates |-> DepCalendarDates,
     trips |-> <<TripRow("a-b", svc, "Varsity Lakes"), TripRow("t4", "WK", "Central"),
                 TripRow("t3", "WK", "Roma Street")>>
               \o (IF with_a THEN <<TripRow("a", "WK", "Airport")>> ELSE <<>>),
     stop_times |-> <<StopTimeRow("a-b", "c", "25:30:00"), StopTimeRow("t4", "c", "02:05:00"),
                      StopTimeRow("t3", "c", "6:60")>>
                    \o (IF with_a THEN <<StopTimeRow("a", "b-c", "07:15:00")>> ELSE <<>>),
     routes |-> <<[route_id |-> "R", route_short_name |-> "GCWA", route_color |-> "0072CE"]>>,
     stops |-> <<[stop_id |-> "c", stop_name |-> "Central Platform 1"],
                 [stop_id |-> "b-c", stop_name |-> "Central Stop B"]>>]

DepStores == {Timetable(svc, with_a) : svc \in DepServices, with_a \in BOOLEAN}

DepStopIds == {<<>>, <<"c">>, <<"c", "b-c">>, <<"zz">>}

DepCounts == {0 - 1, 0, 1, 8}

Stu(stop, has_arrival, arrival, departure) ==
    [stop_id |-> stop, has_arrival |-> has_arrival, arrival_time |-> arrival,
     departure_time |-> departure]

TripUpdate(trip, stus) == [has_trip_update |-> TRUE, trip_id |-> trip, stop_time_update |-> stus]

\* an arrival five seconds after 00:30; a departure-only update; an arrival without a
\* time beside a departure time; an update for a trip the timetable does not hold; an
\* entity that is no trip update; an arrival stamp beyond datetime's range
DepEntities ==
    {TripUpdate("a-b", <<Stu("c", TRUE, DepMidnight + 1805, 0)>>),
     TripUpdate("a", <<Stu("b-c", FALSE, 0, DepMidnight + 13 * 3600)>>),
     TripUpdate("a-b", <<Stu("c", TRUE, 0, DepMidnight + 14 * 3600)>>),
     TripUpdate("zz", <<Stu("c", TRUE, DepMidnight + 15 * 3600, 0)>>),
     [has_trip_update |-> FALSE, trip_id |-> "", stop_time_update |-> <<>>],
     TripUpdate("t4", <<Stu("c", TRUE, OUT_OF_RANGE, 0)>>)}

DepFeeds == SeqsUpTo(DepEntities, MaxEntities)

\* what the FeedMessage can hold after a decode error on a body of the family
DepKeptFeeds == UNION {EntitiesAfterDecodeError(body) : body \in DepFeeds}

DepInit ==
    /\ ClsIdle
    /\ StIdle
    /\ store \in DepStores \cup {UnsetStore}
    /\ dep_now = 0
    /\ now_utc = 0
    /\ service_count = 0
    /\ stop_ids = <<>>
    /\ dep_pc = "call"
    /\ scheduled_df = <<>>
    /\ scheduled_services = <<>>
    /\ feed = <<>>
    /\ fetch_outcome = "none"
    /\ dep_result = [kind |-> "none", records |-> <<>>, name |-> ""]
    /\ SvcIdle
    /\ RefIdle
    /\ CntIdle
    /\ CycIdle
    /\ PerIdle
    /\ ClockIdle

DepNext ==
    \/ \E ids \in DepStopIds, count \in DepCounts, clock \in DepClocks :
          CallNextServices(ids, count, clock)
    \/ \E f \in DepFeeds, elapsed \in FetchElapsed : FetchOk(f, elapsed)
    \/ \E why \in FetchFailures, elapsed \in FetchElapsed : FetchFails(why, elapsed)
    \/ \E kept \in DepKeptFeeds, elapsed \in FetchElapsed : FetchUnparsable(kept, elapsed)
    \/ MergeAndReturn

SpecDep == DepInit /\ [][DepNext]_vars

-----------------------------------------------------------------------------
(* Specification SpecService: get_service_ids_for_day on every calendar and   *)
(* exception table of a bounded family, for three consecutive days            *)

MaxExceptions == 2

\* Thursday 29 February, Friday 1 March and Saturday 2 March 2024
SvcDates == {DateOf(DepMidnight) - 1, DateOf(DepMidnight), DateOf(DepMidnight) + 1}

\* the rows a service can have in calendar.txt: weekdays all year; Fridays, for the
\* one day 1 March; every day until 29 February; weekends all year
SvcCalendarRows(id) ==
    {CalendarRow(id, {"monday", "tuesday", "wednesday", "thursday", "friday"}, "20240101", "20241231"),
     CalendarRow(id, {"friday"}, "20240301", "20240301"),
     CalendarRow(id, {Weekdays[k] : k \in 1..7}, "20230101", "20240229"),
     CalendarRow(id, {"saturday", "sunday"}, "20240101", "20241231")}

SvcCalendars ==
    {a \o b : a \in {<<>>} \cup {<<r>> : r \in SvcCalendarRows("S1")},
              b \in {<<>>} \cup {<<r>> : r \in SvcCalendarRows("S2")}}

\* the rows of calendar_dates.txt: S1 has calendar rows, S3 has none
SvcExceptionRows ==
    [service_id : {"S1", "S3"}, date : {"20240301", "20240302"}, exception_type : {"1", "2"}]

SvcStores ==
    {[loaded |-> TRUE, calendar |-> c, calendar_dates |-> e, trips |-> <<>>, stop_times |-> <<>>,
      routes |-> <<>>, stops |-> <<>>] :
        c \in SvcCalendars, e \in SeqsUpTo(SvcExceptionRows, MaxExceptions)}

SvcInit ==
    /\ ClsIdle
    /\ StIdle
    /\ store \in SvcStores \cup {UnsetStore}
    /\ dep_now = 0
    /\ now_utc = 0
    /\ service_count = 0
    /\ stop_ids = <<>>
    /\ dep_pc = "idle"
    /\ scheduled_df = <<>>
    /\ scheduled_services = <<>>
    /\ feed = <<>>
    /\ fetch_outcome = "none"
    /\ dep_result = [kind |-> "none", records |-> <<>>, name |-> ""]
    /\ svc_pc = "call"
    /\ date_obj = 0
    /\ service_ids = {}
    /\ RefIdle
    /\ CntIdle
    /\ CycIdle
    /\ PerIdle
    /\ ClockIdle

SvcNext == \E d \in SvcDates : GetServiceIds(d)

SpecService == SvcInit /\ [][SvcNext]_vars

-----------------------------------------------------------------------------
(* Specification SpecStore: the store from the import of track.py and bot.py  *)
(* through a bounded number of downloads, with an evaluation cycle and a      *)
(* departure query running beside the updater                                 *)

\* what a directory can hold: files one of which read_csv rejects, or six readable
\* files some of which lack a column
DirStates ==
    {[readable |-> FALSE, missing |-> {}]}
        \cup {[readable |-> TRUE, missing |-> m] : m \in SUBSET IndexColumns}

\* the state once both modules are imported: track.py has run load_gtfs_data() on the
\* directory found (235), bot.py has read its own routes from the same directory (1043)
StoreInit ==
    /\ ClsIdle
    /\ StIdle
    /\ SvcIdle
    /\ CntIdle
    /\ CycIdle
    /\ PerIdle
    /\ ClockIdle
    /\ \E d \in DirStates :
          /\ gtfs_dir = [version |-> 1, readable |-> d.readable, missing |-> d.missing]
          /\ store = load_gtfs_data([version |-> 1, readable |-> d.readable,
                                      missing |-> d.missing], UnsetSnapshot)
    /\ bot_routes = 1
    /\ upd_pc = "sleeping"
    /\ cyc_pc = "idle"
    /\ cyc_reads = [topology |-> NotRead, routes_today |-> NotRead, counts_map |-> NotRead,
                    counts_routes |-> NotRead]
    /\ qry_pc = "idle"
    /\ qry_reads = [baseline |-> NotRead, merge |-> NotRead]
    /\ dep_now = 0
    /\ now_utc = 0
    /\ service_count = 0
    /\ stop_ids = <<>>
    /\ dep_pc = "idle"
    /\ scheduled_df = <<>>
    /\ scheduled_services = <<>>
    /\ feed = <<>>
    /\ fetch_outcome = "none"
    /\ dep_result = [kind |-> "none", records |-> <<>>, name |-> ""]

StoreNext ==
    \/ UpdateFetch
    \/ UpdateFails
    \/ \E d \in DirStates : UpdateSwapAndLoad(d.readable, d.missing)
    \/ CycleStart
    \/ CycleEvaluate
    \/ \E fetched \in BOOLEAN : CycleCounts(fetched)
    \/ QueryStart
    \/ QueryReturn

SpecStore == StoreInit /\ [][StoreNext]_vars

-----------------------------------------------------------------------------
(* Specification SpecCounts: get_rtt_vehicle_counts on every position feed of *)
(* a bounded family                                                           *)

MaxReports == 2

\* rail R1 and R2, bus R3 and R4, a tram route, a ferry route, and a route whose
\* route_type cell is empty
StatsRoutes ==
    StRoutes \o
    <<[route_id |-> "R5", route_short_name |-> "GLKN", route_long_name |-> "G:link",
       route_type |-> "0"],
      [route_id |-> "R6", route_short_name |-> "F1", route_long_name |-> "CityCat",
       route_type |-> "4"],
      [route_id |-> "R7", route_short_name |-> "X", route_long_name |-> "No type",
       route_type |-> "nan"]>>

\* T1 on rail, T3 on bus, T9 on a route the routes table does not hold; T1 and T3 run
\* on weekdays, T9 on the expired service
StatsStore ==
    [loaded |-> TRUE, calendar |-> DepCalendar, calendar_dates |-> DepCalendarDates,
     routes |-> StatsRoutes,
     trips |-> <<[trip_id |-> "T1", service_id |-> "WK", route_id |-> "R1"],
                 [trip_id |-> "T3", service_id |-> "WK", route_id |-> "R3"],
                 [trip_id |-> "T9", service_id |-> "OLD", route_id |-> "R9"]>>,
     stop_times |-> <<>>, stops |-> <<>>]

Report(id, label, trip, route) ==
    [has_vehicle |-> TRUE, vehicle_id |-> id, label |-> label, trip_id |-> trip,
     route_id |-> route]

\* vehicle V1 on a rail route; V1 again on the same route with another trip; V1 on a
\* bus route; a report known by its trip only; one known by its label, on the tram
\* route; V2 on a route nobody knows; V4 on the ferry; a report with no identity; an
\* entity that is no vehicle position
CntReports ==
    {Report("V1", "", "T1", "R1"),
     Report("V1", "", "T2", " R1 "),
     Report("V1", "", "T3", "R3"),
     Report("", "", "T1", ""),
     Report("", "L5", "", "R5"),
     Report("V2", "", "T9", "R9"),
     Report("V4", "", "", "R6"),
     Report("", "", "", ""),
     [has_vehicle |-> FALSE, vehicle_id |-> "V1", label |-> "", trip_id |-> "T1",
      route_id |-> "R1"]}

CntFeeds == SeqsUpTo(CntReports, MaxReports)

CntInit ==
    /\ ClsIdle
    /\ StIdle
    /\ SvcIdle
    /\ RefIdle
    /\ store \in {StatsStore, UnsetStore}
    /\ dep_now = 0
    /\ now_utc = 0
    /\ service_count = 0
    /\ stop_ids = <<>>
    /\ dep_pc = "idle"
    /\ scheduled_df = <<>>
    /\ scheduled_services = <<>>
    /\ feed = <<>>
    /\ fetch_outcome = "none"
    /\ dep_result = [kind |-> "none", records |-> <<>>, name |-> ""]
    /\ cnt_pc = "call"
    /\ pos_fetch = "none"
    /\ positions = <<>>
    /\ rtt_counts = ZeroCounts
    /\ CycIdle
    /\ PerIdle
    /\ ClockIdle

CntNext == \E outcome \in FetchOutcomes, f \in CntFeeds : CountVehicles(outcome, f)

SpecCounts == CntInit /\ [][CntNext]_vars

-----------------------------------------------------------------------------
(* Specification SpecPeriod: get_current_service_period at every minute of a *)
(* week, read at the first and at the last second of the minute             *)

\* Monday 2024-02-26 00:00:00
WeekStart == 19779 * SecondsPerDay

PerClock == {WeekStart + 60 * m + sec : m \in 0..(7 * 24 * 60 - 1), sec \in {0, 59}}

PerInit ==
    /\ alert = [active_period |-> <<>>, header_text |-> <<>>, description_text |-> <<>>,
                effect |-> "UNKNOWN_EFFECT", informed_entity |-> <<>>]
    /\ now_local \in PerClock
    /\ cls_pc = "idle"
    /\ cls_flags = [active |-> FALSE, upcoming |-> FALSE, has_period |-> FALSE,
                    raised |-> FALSE]
    /\ cls_result = ""
    /\ StIdle
    /\ DepIdle
    /\ SvcIdle
    /\ RefIdle
    /\ CntIdle
    /\ CycIdle
    /\ ClockIdle
    /\ per_pc = "call"
    /\ current_period = ""

PerNext == PeriodCall

SpecPeriod == PerInit /\ [][PerNext]_vars

-----------------------------------------------------------------------------
(* Specification SpecStatus, its initial state and steps: the cycle runs on the *)
(* loaded schedule and ends with the statistics of the message       *)

\* the vehicle-position feeds of the cycle: empty, one train, one bus
StPositions == {<<>>, <<Report("V1", "", "T1", "R1")>>, <<Report("V1", "", "T3", "R3")>>}

StInit ==
    /\ st_pc = "fetch"
    /\ now_local = StClock
    /\ routes = StRoutes
    /\ alerts = <<>>
    /\ termini_map = <<>>
    /\ todo_termini = <<>>
    /\ terminus = NoTerminus
    /\ todo_routes = {}
    /\ rid = NoRoute
    /\ alert_idx = 1
    /\ status = ""
    /\ closure_reasons = <<>>
    /\ last_scan = [cls |-> "none"]
    /\ final_status = <<>>
    /\ final_reasons = <<>>
    /\ closures_map = <<>>
    /\ termini_closure_lines = <<>>
    /\ termini_upcoming_lines = <<>>
    /\ termini_operational_lines = <<>>
    /\ alert = [active_period |-> <<>>, header_text |-> <<>>, description_text |-> <<>>,
                effect |-> "UNKNOWN_EFFECT", informed_entity |-> <<>>]
    /\ cls_pc = "idle"
    /\ cls_flags = [active |-> FALSE, upcoming |-> FALSE, has_period |-> FALSE,
                    raised |-> FALSE]
    /\ cls_result = ""
    \* both modules read the same routes.txt at start-up
    /\ store = [StatsStore EXCEPT !.routes = StRoutes]
    /\ dep_now = 0
    /\ now_utc = 0
    /\ service_count = 0
    /\ stop_ids = <<>>
    /\ dep_pc = "idle"
    /\ scheduled_df = <<>>
    /\ scheduled_services = <<>>
    /\ feed = <<>>
    /\ fetch_outcome = "none"
    /\ dep_result = [kind |-> "none", records |-> <<>>, name |-> ""]
    /\ SvcIdle
    /\ RefIdle
    /\ CntIdle
    /\ CycIdle
    /\ PerIdle
    /\ wall_clock = StClock
    /\ labels_given = {}

StNext ==
    \/ FetchAlerts(StFeeds)
    \/ BuildMaps
    \/ NextTerminus
    \/ NextRoute
    \/ ScanAlert
    \/ EndRoute
    \/ EndTerminus
    \/ \E outcome \in FetchOutcomes, f \in StPositions : ReturnStats(outcome, f)

\* cycles during which the wall clock crosses no boundary of a window
SpecStatus == StInit /\ [][StNext]_vars

-----------------------------------------------------------------------------
(* Specification SpecTermini: the terminus map built from every routes table *)
(* of a bounded family of long names                                          *)

\* long names with each delimiter, with several, with none, made of a delimiter only,
\* with a word that merely contains "to" or "via", and empty
TermLongNames ==
    {"Varsity Lakes - Airport", "Airport to Varsity Lakes", "City/Valley",
     "Ipswich via Darra", "Caboolture", "A - B - C", "Airport - City to Valley",
     "Toowong TO City to Airport", "Auto City/Valley via X", "Into town", "", " - ", "/"}

TermRow(id, long_name, type) ==
    [route_id |-> id, route_short_name |-> "S", route_long_name |-> long_name,
     route_type |-> type]

\* one rail route, or two routes of which the second is rail or bus
TermTables ==
    {<<TermRow("R1", n, "2")>> : n \in TermLongNames}
    \cup {<<TermRow("R1", n, "2"), TermRow("R2", m, t)>> :
              n \in TermLongNames, m \in TermLongNames, t \in {"2", "3"}}

TermInit ==
    /\ st_pc = "build"
    /\ now_local = StClock
    /\ routes \in TermTables
    /\ alerts = <<>>
    /\ termini_map = <<>>
    /\ todo_termini = <<>>
    /\ terminus = NoTerminus
    /\ todo_routes = {}
    /\ rid = NoRoute
    /\ alert_idx = 1
    /\ status = ""
    /\ closure_reasons = <<>>
    /\ last_scan = [cls |-> "none"]
    /\ final_status = <<>>
    /\ final_reasons = <<>>
    /\ closures_map = <<>>
    /\ termini_closure_lines = <<>>
    /\ termini_upcoming_lines = <<>>
    /\ termini_operational_lines = <<>>
    /\ alert = [active_period |-> <<>>, header_text |-> <<>>, description_text |-> <<>>,
                effect |-> "UNKNOWN_EFFECT", informed_entity |-> <<>>]
    /\ cls_pc = "idle"
    /\ cls_flags = [active |-> FALSE, upcoming |-> FALSE, has_period |-> FALSE,
                    raised |-> FALSE]
    /\ cls_result = ""
    /\ DepIdle
    /\ SvcIdle
    /\ RefIdle
    /\ CntIdle
    /\ alert_fetch = "ok"
    /\ routes_today = 0
    /\ PerIdle
    /\ wall_clock = StClock
    /\ labels_given = {}

TermNext == BuildMaps

SpecTermini == TermInit /\ [][TermNext]_vars

-----------------------------------------------------------------------------
(* Specification SpecClock: one evaluation cycle during which the wall clock *)
(* passes the end of a window                                                *)

\* a window that ends one second after the cycle read its clock
EndsSoon == <<[start |-> StClock - 3600, end |-> StClock + 1]>>

\* the instants the wall clock reaches during the cycle
StLater == {StClock + 2}

\* delays on R1, whose window ends during the cycle; a closure on R1 and one on R2
\* whose windows last; planned works on R2
ClockAlertCatalogue ==
    {StAlert(EndsSoon, <<"Minor delays">>, <<>>, "UNKNOWN_EFFECT", <<"R1">>),
     StAlert(EndsSoon, <<"Gold Coast line track closure">>, <<>>, "UNKNOWN_EFFECT", <<"R1">>),
     StAlert(ActiveNow, <<"Track closure at airport">>, <<>>, "UNKNOWN_EFFECT", <<"R2">>),
     StAlert(StartsTomorrow, <<"Planned works">>, <<>>, "UNKNOWN_EFFECT", <<"R2">>)}

\* feeds that hold an alert once, so that an alert labelled twice was scanned twice
ClockFeeds ==
    {f \in SeqsUpTo(ClockAlertCatalogue, MaxAlerts) :
        \A i, j \in 1..Len(f) : i # j => f[i] # f[j]}

ClockNext ==
    \/ FetchAlerts(ClockFeeds)
    \/ BuildMaps
    \/ NextTerminus
    \/ NextRoute
    \/ ScanAlert
    \/ EndRoute
    \/ EndTerminus
    \/ \E outcome \in FetchOutcomes, f \in StPositions : ReturnStats(outcome, f)
    \/ \E later \in StLater : ClockPasses(later)

SpecClock == StInit /\ [][ClockNext]_vars

-----------------------------------------------------------------------------
(* Claims about classify_alert_for_route, under SpecClassify *)

\* the windows of the alert that hold a start or end datetime cannot represent
UnrepresentableWindows ==
    {i \in 1..Len(alert.active_period) :
        alert.active_period[i].start = OUT_OF_RANGE \/ alert.active_period[i].end = OUT_OF_RANGE}

\* C3: classify_alert_for_route is total: whatever the windows, texts and effect of
\* the alert, the call returns one of the four labels and no exception leaves it.
C3_ClassifyTotal == cls_pc = "returned" => cls_result \in Labels

\* C3's case: a call in which fromtimestamp raised inside the window loop has
\* returned a label
C3_Witness ==
    /\ cls_pc = "returned"
    /\ cls_result \in Labels
    /\ UnrepresentableWindows # {}

\* a window of the claim's reading: an end beyond datetime's range is still an end in
\* the future, and an absent end is an unbounded one
EndNotBefore(ap, now) == ap.end = 0 \/ ap.end = OUT_OF_RANGE \/ now <= ap.end
StartNotAfter(ap, now) == ap.start # 0 /\ ap.start # OUT_OF_RANGE /\ ap.start <= now
WindowHoldsNow(ap, now) == StartNotAfter(ap, now) /\ EndNotBefore(ap, now)

\* C4: if now lies within [start, end] of some window that is not expired (end absent
\* = unbounded future), the alert is marked active, so the label is 'active' or
\* 'closure', whatever the other windows are.
C4_ActiveWindowWins ==
    (/\ cls_pc = "returned"
     /\ \E i \in 1..Len(alert.active_period) : WindowHoldsNow(alert.active_period[i], now_local))
    => cls_result \in {"active", "closure"}

\* C4 on the alerts all of whose stamps datetime can represent (what remains of the
\* claim once the unrepresentable stamps are set aside; not a claim's formula)
ActiveWindowWinsWhenRepresentable ==
    (/\ cls_pc = "returned"
     /\ UnrepresentableWindows = {}
     /\ \E i \in 1..Len(alert.active_period) : WindowHoldsNow(alert.active_period[i], now_local))
    => cls_result \in {"active", "closure"}

\* the claim's closure test, from its own words
ClaimClosureKeywords == {"track closure", "track closures", "rail closure", "no trains",
                         "no train services", "bus replacement"}
ClaimClosureEffects == {"NO_SERVICE", "REDUCED_SERVICE", "DETOUR", "MODIFIED_SERVICE"}
ClaimClosureSign(a) ==
    \/ \E k \in ClaimClosureKeywords :
          Contains(Lower(FirstTranslation(a.header_text) \o " "
                         \o FirstTranslation(a.description_text)), k)
    \/ a.effect \in ClaimClosureEffects

\* C5: the label is 'closure' exactly when the alert was marked active and carries a
\* closure keyword or a closure effect; active without either is 'active'; upcoming
\* but not active is 'upcoming' even with a closure sign; everything else 'unknown'.
C5_ClosureRefinement ==
    cls_pc = "returned" =>
        /\ (cls_result = "closure") <=> (cls_flags.active /\ ClaimClosureSign(alert))
        /\ (cls_result = "active") <=> (cls_flags.active /\ ~ClaimClosureSign(alert))
        /\ (cls_result = "upcoming") <=> (~cls_flags.active /\ cls_flags.upcoming)
        /\ (cls_result = "unknown") <=> (~cls_flags.active /\ ~cls_flags.upcoming)

\* C5's case: an alert marked upcoming only, carrying a closure keyword and a closure
\* effect, has been classified 'upcoming'
C5_Witness ==
    /\ cls_pc = "returned"
    /\ ~cls_flags.active /\ cls_flags.upcoming
    /\ has_closure_words(alert) /\ is_closure_effect(alert)
    /\ cls_result = "upcoming"

-----------------------------------------------------------------------------
(* Claims about the terminus loop of build_status_message, under SpecStatus *)

\* the guard in the claim's words: the text names the terminus, or holds a line keyword
\* whose terminus list includes the terminus, or holds a network-wide phrase
ClaimGuardHolds(a, term) ==
    LET txt == Lower(FirstTranslation(a.header_text) \o " "
                     \o FirstTranslation(a.description_text))
    IN  \/ Contains(txt, Lower(term))
        \/ \E e \in {LINE_KEYWORD_TO_TERMINI[k] : k \in 1..Len(LINE_KEYWORD_TO_TERMINI)} :
              Contains(txt, e.kw) /\ term \in e.termini
        \/ \E ph \in {"all lines", "all train lines", "entire network"} : Contains(txt, ph)

GoldCoastClosureOnR1 ==
    StAlert(ActiveNow, <<"Gold Coast line track closure">>, <<>>, "UNKNOWN_EFFECT", <<"R1">>)

\* C1: an alert classified 'closure' is accepted for the terminus being scanned only
\* if the guard holds for that terminus; a 'closure' alert for which it does not hold
\* leaves the terminus's status and reasons as they were.  With the feed holding only
\* the active 'Gold Coast line track closure' alert on a route shared by Varsity Lakes
\* and Airport, Varsity Lakes ends closed and Airport operational.
C1_RelevanceGuard ==
    /\ (terminus # NoTerminus /\ last_scan.cls = "closure") =>
          /\ last_scan.accepted => ClaimGuardHolds(last_scan.a, terminus)
          /\ ~ClaimGuardHolds(last_scan.a, terminus) =>
                /\ status = last_scan.status_before
                /\ closure_reasons = last_scan.reasons_before
    /\ (alerts = <<GoldCoastClosureOnR1>> /\ {"Airport", "Varsity Lakes"} \subseteq DOMAIN final_status) =>
          /\ final_status["Varsity Lakes"] = "Current issues"
          /\ final_reasons["Varsity Lakes"] = <<"Gold Coast line track closure">>
          /\ final_status["Airport"] = "Operational"
          /\ final_reasons["Airport"] = <<>>

\* C1's case: the Gold Coast closure was scanned for both termini of its route,
\* refused for Airport and accepted for Varsity Lakes
C1_Witness ==
    /\ alerts = <<GoldCoastClosureOnR1>>
    /\ {"Airport", "Varsity Lakes"} \subseteq DOMAIN final_status
    /\ final_status["Airport"] = "Operational"
    /\ final_status["Varsity Lakes"] = "Current issues"
    /\ last_scan.cls = "closure" /\ last_scan.accepted

\* some alert on one of the terminus's routes classifies 'upcoming'
SomeUpcomingOn(term) ==
    \E r \in RoutesOf(termini_map, term) :
        \E i \in 1..Len(alerts_for_route(alerts, r)) :
            classify_alert_for_route(alerts_for_route(alerts, r)[i], r, now_local) = "upcoming"

\* C2: a terminus's final status is the closure status whenever a closure was accepted
\* for it, the pending-incident status only if none was accepted and some alert on
\* one of its routes classified 'upcoming', and operational otherwise.
C2_StatusPrecedence ==
    \A t \in DOMAIN final_status :
        final_status[t] = IF final_reasons[t] # <<>> THEN "Current issues"
                          ELSE IF SomeUpcomingOn(t) THEN "Upcoming closure"
                          ELSE "Operational"

-----------------------------------------------------------------------------
(* Claims about get_next_services, under SpecDep *)

\* the query has returned its list of records
ReturnedList == dep_pc = "returned" /\ dep_result.kind = "list"

\* the (trip_id, stop_id) pairs of the scheduled baseline
BaselinePairs == {<<scheduled_df[i].trip_id, scheduled_df[i].stop_id>> : i \in 1..Len(scheduled_df)}

\* the stop-time updates of the feed, each with the trip it belongs to
FeedUpdates == {Updates(feed)[i] : i \in 1..Len(Updates(feed))}

\* every record of the dict is the record of a baseline row, and the output holds no
\* more records than the baseline has rows
NoRecordCreated ==
    ReturnedList =>
        /\ Keys(scheduled_services) \subseteq {service_key(p[1], p[2]) : p \in BaselinePairs}
        /\ Len(dep_result.records) <= Len(scheduled_df)
        /\ \A i \in 1..Len(dep_result.records) : \E k \in 1..Len(scheduled_df) :
              /\ dep_result.records[i].scheduled_time = scheduled_df[k].arrival_dt
              /\ dep_result.records[i].destination = scheduled_df[k].trip_headsign

\* C6: a live update for a (trip, stop) pair absent from the scheduled baseline never
\* appears in the output and never creates a record: the output's records are
\* baseline records, and every live ETA among them was carried by an update for a
\* pair the baseline holds.
C6_UnmatchedUpdateDropped ==
    /\ NoRecordCreated
    /\ ReturnedList =>
          \A i \in 1..Len(dep_result.records) :
              dep_result.records[i].is_realtime =>
                  \E u \in FeedUpdates :
                      /\ <<u.trip_id, u.stu.stop_id>> \in BaselinePairs
                      /\ dep_result.records[i].eta_time \in {u.stu.arrival_time, u.stu.departure_time}

\* the baseline row that wrote the dict entry of key k last
OwnerRow(k) ==
    scheduled_df[CHOOSE i \in 1..Len(scheduled_df) :
        /\ service_key(scheduled_df[i].trip_id, scheduled_df[i].stop_id) = k
        /\ \A j \in (i + 1)..Len(scheduled_df) :
              service_key(scheduled_df[j].trip_id, scheduled_df[j].stop_id) # k]

\* C7: records are keyed by the pair (trip_id, stop_id), whatever characters the ids
\* hold: baseline entries with different pairs are different records, and only an
\* update for exactly (t, s) changes the record of trip t at stop s.
C7_KeyedByPair ==
    ReturnedList =>
        /\ Len(scheduled_services) = Cardinality(BaselinePairs)
        /\ \A i \in 1..Len(scheduled_services) :
              scheduled_services[i].rec.is_realtime =>
                  \E u \in FeedUpdates :
                      /\ u.trip_id = OwnerRow(scheduled_services[i].key).trip_id
                      /\ u.stu.stop_id = OwnerRow(scheduled_services[i].key).stop_id

\* the stamp is an instant not before the instant the merge compares with
FutureStamp(ts) == ts # 0 /\ ts # OUT_OF_RANGE /\ ts >= now_utc

\* the update carries a future instant in its arrival or in its departure field
CarriesFutureInstant(stu) ==
    (stu.has_arrival /\ FutureStamp(stu.arrival_time)) \/ FutureStamp(stu.departure_time)

\* C8: every live update that matches a scheduled record on (trip_id, stop_id) and
\* carries a future arrival or departure instant leaves that record with a live ETA
\* and the realtime flag set, whichever of the two fields carries the instant.
C8_FutureInstantOverrides ==
    ReturnedList =>
        \A u \in FeedUpdates :
            (<<u.trip_id, u.stu.stop_id>> \in BaselinePairs /\ CarriesFutureInstant(u.stu)) =>
                \E i \in 1..Len(scheduled_services) :
                    /\ scheduled_services[i].key = service_key(u.trip_id, u.stu.stop_id)
                    /\ scheduled_services[i].rec.is_realtime
                    /\ scheduled_services[i].rec.eta_time >= now_utc

\* the candidate arrivals of the timetable for the query: the stop time, its trip, the
\* service day anchoring it and the instant, for the days the trip's service is active
Candidates ==
    {c \in [st : {store.stop_times[i] : i \in 1..Len(store.stop_times)},
            trip : {store.trips[j] : j \in 1..Len(store.trips)},
            day : {DateOf(dep_now) - 1, DateOf(dep_now)}] :
        /\ c.st.trip_id = c.trip.trip_id
        /\ \E k \in 1..Len(stop_ids) : stop_ids[k] = c.st.stop_id
        /\ c.trip.service_id \in get_service_ids_for_day(store, c.day)
        /\ parse_arrival(c.st.arrival_time, c.day * SecondsPerDay) # <<>>
        /\ parse_arrival(c.st.arrival_time, c.day * SecondsPerDay)[1] >= dep_now}

CandidateInstant(c) == parse_arrival(c.st.arrival_time, c.day * SecondsPerDay)[1]

\* every candidate arrival not before now is a row of get_scheduled_departures
CandidatesSurfaced ==
    ReturnedList =>
        \A c \in Candidates : \E k \in 1..Len(scheduled_df) :
            /\ scheduled_df[k].trip_id = c.st.trip_id
            /\ scheduled_df[k].stop_id = c.st.stop_id
            /\ scheduled_df[k].arrival_dt = CandidateInstant(c)

\* C9: each candidate arrival (yesterday's midnight + clock offset if the service ran
\* yesterday, today's midnight + clock offset if it runs today) that is not before now
\* is a row of get_scheduled_departures and, the count being large enough, a departure
\* of the output; a post-midnight tail of yesterday's service is not lost.
C9_TwoAnchors ==
    /\ CandidatesSurfaced
    /\ (ReturnedList /\ service_count >= Len(scheduled_df)) =>
          \A c \in Candidates : \E i \in 1..Len(dep_result.records) :
              /\ dep_result.records[i].scheduled_time = CandidateInstant(c)
              /\ dep_result.records[i].destination = c.trip.trip_headsign

\* C10: the output never holds more records than the requested count, whatever
\* integer the count is and however many departures are available (a count that is
\* not positive asks for no record).
C10_AtMostCount ==
    ReturnedList =>
        Len(dep_result.records) <= (IF service_count > 0 THEN service_count ELSE 0)

\* what holds of the slice: a count that is not negative is never exceeded
AtMostCountWhenNotNegative ==
    (ReturnedList /\ service_count >= 0) => Len(dep_result.records) <= service_count

\* the records of the dict after the merge that the output leaves out: those whose
\* number of copies in the dict exceeds their number of copies in the output
CopiesIn(recs, r) == Cardinality({i \in 1..Len(recs) : recs[i] = r})

Omitted ==
    {scheduled_services[j].rec : j \in {k \in 1..Len(scheduled_services) :
        CopiesIn(Values(scheduled_services), scheduled_services[k].rec)
            > CopiesIn(dep_result.records, scheduled_services[k].rec)}}

\* C11: the output is the ETA-ascending list of the reconciled records cut to the
\* count: its records are records of the dict, non-decreasing by ETA (the ETA after a
\* live override), and no record left out has an ETA strictly earlier than a returned one.
C11_SortedByEtaThenCut ==
    ReturnedList =>
        /\ \A i \in 1..Len(dep_result.records) :
              CopiesIn(dep_result.records, dep_result.records[i])
                  <= CopiesIn(Values(scheduled_services), dep_result.records[i])
        /\ \A i \in 1..(Len(dep_result.records) - 1) :
              dep_result.records[i].eta_time <= dep_result.records[i + 1].eta_time
        /\ \A r \in Omitted : \A i \in 1..Len(dep_result.records) :
              r.eta_time >= dep_result.records[i].eta_time

\* C11's case: a live override moved a record ahead of one scheduled earlier, and the
\* cut kept the overridden record and left the other out
C11_Witness ==
    /\ ReturnedList
    /\ service_count = 1
    /\ Len(dep_result.records) = 1
    /\ dep_result.records[1].is_realtime
    /\ \E r \in Omitted : r.scheduled_time < dep_result.records[1].scheduled_time

\* the query's answer is the timetable's alone: a list whose records are all
\* unflagged with the ETA equal to the scheduled instant
ScheduledOnly ==
    /\ dep_result.kind = "list"
    /\ \A i \in 1..Len(dep_result.records) :
          /\ ~dep_result.records[i].is_realtime
          /\ dep_result.records[i].eta_time = dep_result.records[i].scheduled_time

\* C12: when the live feed is unreachable, answers a status other than 200 or cannot
\* be parsed, get_next_services returns the scheduled-only result (no record flagged
\* realtime, every ETA the scheduled instant) and raises nothing.
C12_FailedFetchScheduledOnly ==
    (dep_pc = "returned" /\ fetch_outcome \in FetchFailures \cup {"unparsable"})
        => ScheduledOnly

\* the part of C12 the code keeps: a fetch that failed before the body was parsed
\* gives the scheduled-only result
UnreadFeedScheduledOnly ==
    (dep_pc = "returned" /\ fetch_outcome \in FetchFailures) => ScheduledOnly

\* C13: the departure path surfaces no fault: for every stop-id list (empty, or naming
\* stops the stop table does not hold) and every state of the store, a store that was
\* never loaded included, get_next_services returns and does not raise.
C13_DeparturesNeverRaise == dep_pc = "returned" => dep_result.kind # "raised"

\* the part of C13 the code keeps: with the tables loaded and every stamp of the feed
\* within datetime's range, the query returns a list or the placeholder
NoFaultWhenLoadedAndRepresentable ==
    (/\ dep_pc = "returned"
     /\ store.loaded
     /\ \A u \in FeedUpdates :
            u.stu.arrival_time # OUT_OF_RANGE /\ u.stu.departure_time # OUT_OF_RANGE)
        => dep_result.kind # "raised"

-----------------------------------------------------------------------------
(* Claims about get_service_ids_for_day, under SpecService *)

\* the calendar day a YYYYMMDD text names, as a day number
ClaimDay(text) ==
    DaysFromCivil(ToInt(SubSeq(text, 1, 4)), ToInt(SubSeq(text, 5, 6)), ToInt(SubSeq(text, 7, 8)))

\* the weekday column of day d, counted from Monday 26 February 2024
ClaimWeekday(d) == Weekdays[((d - ClaimDay("20240226")) % 7) + 1]

\* B: flagged '1' for d's weekday, and d within [start_date, end_date]
ClaimBase(d) ==
    {store.calendar[i].service_id : i \in {j \in 1..Len(store.calendar) :
        /\ store.calendar[j][ClaimWeekday(d)] = "1"
        /\ ClaimDay(store.calendar[j].start_date) <= d
        /\ d <= ClaimDay(store.calendar[j].end_date)}}

\* A and R: the ids with an exception of the type on d
ClaimExceptions(d, type) ==
    {store.calendar_dates[i].service_id : i \in {j \in 1..Len(store.calendar_dates) :
        /\ ClaimDay(store.calendar_dates[j].date) = d
        /\ store.calendar_dates[j].exception_type = type}}

\* C14: get_service_ids_for_day(d) returns exactly (B \cup A) \ R; hence an id removed
\* by a type-2 exception on d is never in the result, whether it is weekday-active,
\* also added on d, or other ids are added on d.
C14_ServiceIdsOfDay ==
    svc_pc = "returned" =>
        /\ service_ids =
              (ClaimBase(date_obj) \cup ClaimExceptions(date_obj, "1"))
                  \ ClaimExceptions(date_obj, "2")
        /\ service_ids \cap ClaimExceptions(date_obj, "2") = {}

\* C14's case: an id that is weekday-active on d, added on d and removed on d
C14_Witness ==
    /\ svc_pc = "returned"
    /\ ClaimBase(date_obj) \cap ClaimExceptions(date_obj, "1")
           \cap ClaimExceptions(date_obj, "2") # {}
    /\ service_ids \cap ClaimExceptions(date_obj, "2") = {}

-----------------------------------------------------------------------------
(* Claims about the schedule store, under SpecStore *)

\* a step in which load_gtfs_data ran on a directory with something wrong in it
FailedLoadStep ==
    /\ gtfs_dir'.version # gtfs_dir.version
    /\ (~gtfs_dir'.readable \/ gtfs_dir'.missing # {})

\* C15: the load is all-or-nothing: after a call of load_gtfs_data in which a table
\* does not parse or is invalid (lacks a column an index needs), the six tables and
\* the five indices are those of the previously published snapshot.
C15_LoadAllOrNothing == [][FailedLoadStep => store' = store]_vars

\* the part of C15 the code keeps: when a read_csv raises, nothing is published
UnreadableKeepsSnapshot ==
    [][(gtfs_dir'.version # gtfs_dir.version /\ ~gtfs_dir'.readable) => store' = store]_vars

\* the index fields of the store that are not empty
BuiltIndices ==
    {store[f] : f \in {"trip_lookup", "route_lookup", "trip_to_route_type",
                       "route_short_to_ids", "trip_bounds_with_type"}} \ {Empty}

\* no index outlives its tables: every index that is built comes from the tables
\* that are published
IndicesFromPublishedTables == BuiltIndices \subseteq {store.version}

\* the downloads the finished cycle's reads of track.py's store saw
CycleStoreReads ==
    {cyc_reads[f] : f \in {"routes_today", "counts_map", "counts_routes"}} \ {NotRead, Empty}

\* C16: a computation that reads the store sees one published snapshot throughout: a
\* refresh that completes while an evaluation cycle or a departure query is suspended
\* on a fetch never makes it combine tables or indices of two snapshots.
C16_SingleSnapshot ==
    /\ cyc_pc = "done" => Cardinality(CycleStoreReads) <= 1
    /\ qry_pc = "done" => qry_reads.merge = qry_reads.baseline

\* the part of C16 the code keeps: the departure query reads its tables once
QuerySingleSnapshot == qry_pc = "done" => qry_reads.merge = qry_reads.baseline

\* C17: the evaluation path and the departure path read the same snapshot: once a
\* refresh has published new tables, the terminus topology of a cycle is built from
\* the route table that the route statistics and the departure queries use.
C17_TopologyFromPublishedRoutes ==
    (cyc_pc \in {"positions", "done"} /\ cyc_reads.routes_today # Empty)
        => cyc_reads.topology = cyc_reads.routes_today

-----------------------------------------------------------------------------
(* Claims about get_rtt_vehicle_counts, under SpecCounts *)

\* the identity of a report: vehicle id, else label, else trip id, else route id
ClaimIdentity(vp) ==
    IF vp.vehicle_id # "" THEN vp.vehicle_id
    ELSE IF vp.label # "" THEN vp.label
    ELSE IF vp.trip_id # "" THEN vp.trip_id
    ELSE vp.route_id

\* the distinct vehicle identities of the feed
Identities ==
    {ClaimIdentity(positions[i]) : i \in {j \in 1..Len(positions) : positions[j].has_vehicle}}
        \ {""}

\* C20: a vehicle that appears in several position reports of one feed is counted
\* once: trains + buses + trams never exceeds the number of distinct vehicle
\* identities of the feed, whatever routes or modes its reports reference.
C20_CountedOnce ==
    cnt_pc = "returned" =>
        rtt_counts.trains + rtt_counts.buses + rtt_counts.trams <= Cardinality(Identities)

\* the part of C20 the code keeps: within one mode a vehicle is counted once, and a
\* feed none of whose reports resolves to rail, bus or tram gives zero counts
CountedOncePerMode ==
    cnt_pc = "returned" =>
        /\ rtt_counts.trains <= Cardinality(Identities)
        /\ rtt_counts.buses <= Cardinality(Identities)
        /\ rtt_counts.trams <= Cardinality(Identities)
        /\ (\A i \in 1..Len(positions) : ModeOf(store, positions[i]) \notin {"2", "3", "0"})
               => rtt_counts = ZeroCounts


-----------------------------------------------------------------------------
(* Claims about the feeds and the snapshot of one cycle, under SpecStatus *)

\* the snapshot shows no closure and no incident: every terminus is operational with
\* no reason, and the closure and upcoming sections are empty
NoClosuresOrIncidents ==
    /\ closures_map = <<>>
    /\ termini_closure_lines = <<>>
    /\ termini_upcoming_lines = <<>>
    /\ \A t \in DOMAIN final_status :
           final_status[t] = "Operational" /\ final_reasons[t] = <<>>

\* the status part of the message
StatusPart ==
    <<final_status, final_reasons, closures_map, termini_closure_lines,
      termini_upcoming_lines, termini_operational_lines>>

\* the step on which build_status_message returns
CycleReturns == st_pc = "loop" /\ st_pc' = "returned"

\* C18: feed failures are local to a cycle: whatever way the alert feed and the
\* position feed fail, build_status_message raises nothing and returns; with a
\* failed alert feed the returned snapshot has no closure and no incident; with a
\* failed position feed the counts are zero; the counts are those of the position feed
\* alone whatever happened to the alert feed, and computing the statistics leaves the
\* status part as the alerts made it.
C18_FeedFailuresLocal ==
    [][/\ st_pc' # "raised"
       /\ CycleReturns =>
            /\ alert_fetch # "ok" => NoClosuresOrIncidents'
            /\ pos_fetch' # "ok" => rtt_counts' = ZeroCounts
            /\ pos_fetch' = "ok" => rtt_counts' = CountsOf(store, positions')
            /\ StatusPart' = StatusPart]_vars

\* a cycle has returned with an unparsable alert feed and an unreachable position
\* feed: every terminus operational, zero counts, routes_today still computed
C18_Witness ==
    /\ st_pc = "returned"
    /\ alert_fetch = "unparsable"
    /\ pos_fetch = "unreachable"
    /\ DOMAIN final_status # {}
    /\ rtt_counts = ZeroCounts
    /\ routes_today > 0

\* the first position of x in s
FirstAt(s, x) == CHOOSE i \in 1..Len(s) : s[i] = x /\ \A j \in 1..(i - 1) : s[j] # x

\* d holds the values of s once each, in the order of their first appearance in s
IsFirstSeenDedupe(d, s) ==
    /\ {d[i] : i \in 1..Len(d)} = {s[i] : i \in 1..Len(s)}
    /\ \A i, j \in 1..Len(d) :
           i < j => d[i] # d[j] /\ FirstAt(s, d[i]) < FirstAt(s, d[j])

\* C19: in the snapshot of a returned cycle, every terminus for which a closure was
\* accepted has an entry in closures_map, holding its closure reasons without
\* duplicates and in first-seen order.
C19_ClosureReasonsExposed ==
    st_pc = "returned" =>
        \A t \in DOMAIN final_reasons :
            final_reasons[t] # <<>> =>
                /\ t \in DOMAIN closures_map
                /\ IsFirstSeenDedupe(closures_map[t], final_reasons[t])

\* what the code does instead: no cycle ever puts a terminus in closures_map
ClosuresMapStaysEmpty == closures_map = <<>>

-----------------------------------------------------------------------------
(* Claims about get_current_service_period, under SpecPeriod *)

PeriodLabels == {overnight, peak, offpeak_weekday, offpeak_evening, nightlink, weekend}

\* the tests of the day's bands that hold at the minute of the call
Covering ==
    {i \in 1..Len(DayBands(WeekdayOf(now_local))) :
        InBand(DayBands(WeekdayOf(now_local))[i], MinuteOfDay(now_local))}

\* the NightLink test holds at the minute of the call
InNightLink ==
    \E i \in 1..Len(NightLinkBands(WeekdayOf(now_local))) :
        InBand(NightLinkBands(WeekdayOf(now_local))[i], MinuteOfDay(now_local))

\* C21: get_current_service_period is total and its bands partition the week: every
\* call returns one of the six labels, and every minute of every day that NightLink
\* does not take lies in exactly one of the minute ranges of the day's bands, none
\* uncovered and none covered twice.
C21_BandsPartitionWeek ==
    per_pc = "returned" =>
        /\ current_period \in PeriodLabels
        /\ ~InNightLink => Cardinality(Covering) = 1

\* the part of C21 the code keeps: the function is total, no minute is uncovered (the
\* fallback returns are never taken), the label is that of the first range holding
\* the minute, and the only minute two ranges of a day share is 18:01 on Saturday and
\* on Sunday, or a Friday minute NightLink takes
PeriodTotalNoGap ==
    per_pc = "returned" =>
        /\ current_period \in PeriodLabels
        /\ InNightLink \/ Covering # {}
        /\ Cardinality(Covering) > 1 =>
               \/ WeekdayOf(now_local) \in {5, 6} /\ MinuteOfDay(now_local) = 18 * 60 + 1
               \/ InNightLink

\* the call was made on weekday wd at hh:mm
CalledAt(wd, hh, mm) ==
    /\ per_pc = "returned"
    /\ WeekdayOf(now_local) = wd
    /\ MinuteOfDay(now_local) = hh * 60 + mm

\* C22: NightLink is checked before the weekend and weekday bands: Friday and
\* Saturday from 23:51 and Saturday and Sunday until 6:00 are NightLink whatever the
\* day's bands say; Friday 23:55 is NightLink, Saturday 10:00 Weekend, Tuesday 07:00
\* Peak, Sunday 21:00 Off-Peak Evening and Sunday 22:30 Overnight.
C22_NightLinkFirstAndExamples ==
    /\ per_pc = "returned" /\ InNightLink => current_period = nightlink
    /\ per_pc = "returned" /\ ~InNightLink => current_period # nightlink
    /\ CalledAt(4, 23, 55) => current_period = nightlink
    /\ CalledAt(5, 10, 0) => current_period = weekend
    /\ CalledAt(1, 7, 0) => current_period = peak
    /\ CalledAt(6, 21, 0) => current_period = offpeak_evening
    /\ CalledAt(6, 22, 30) => current_period = overnight

\* the call of Friday 23:55:59, a minute the weekday overnight band holds too, has
\* returned NightLink
C22_Witness ==
    /\ CalledAt(4, 23, 55)
    /\ now_local % 60 = 59
    /\ Covering # {}
    /\ current_period = nightlink

-----------------------------------------------------------------------------
(* Claims about the clock of one cycle, under SpecClock *)

\* C30: within one cycle every classification is made against the same instant: an
\* alert scanned under several routes or termini is given the same label each time,
\* whatever the wall clock does while the cycle runs and whatever route id is passed.
C30_OneLabelPerAlert ==
    \A x, y \in labels_given : x.a = y.a => x.cls = y.cls

\* what the code keeps of C30: the label does not depend on the route id passed, so
\* two classifications of an alert differ only if the clock moved between them
OneLabelPerAlertAndInstant ==
    \A x \in labels_given :
        \E t \in {StClock} \cup StLater :
            \A r \in {"R1", "R2", "other"} : x.cls = classify_alert_for_route(x.a, r, t)

-----------------------------------------------------------------------------
(* Claims about the terminus loop, under SpecStatus *)

\* the step is one iteration of `for a in alerts_for_route`: an alert is classified
ScanStepTaken == rid # NoRoute /\ rid' = rid /\ alert_idx' # alert_idx

\* C23: once a closure has been accepted for a terminus, scanning for that terminus
\* stops: while the terminus is the current one no further alert is classified, on
\* the same route or on another, so its status and reasons stay as the closure left
\* them.
C23_AcceptedClosureStopsScan ==
    [][closure_reasons # <<>> => ~ScanStepTaken]_vars

\* the part of C23 the code keeps: the accepted closure ends the scan of its own
\* route (the break of line 598 leaves the inner loop)
AcceptedClosureEndsRoute ==
    [][ScanStepTaken /\ last_scan'.accepted
           => alert_idx' > Len(alerts_for_route(alerts, rid))]_vars

-----------------------------------------------------------------------------
(* Claims about the timing steps of classify_alert_for_route, under SpecClassify *)

\* the orders in which n windows can be listed
Orders(n) == {p \in [1..n -> 1..n] : \A i, j \in 1..n : i # j => p[i] # p[j]}

\* the alert with its windows listed in the order p
Reordered(a, p) ==
    [a EXCEPT !.active_period = [i \in 1..Len(a.active_period) |-> a.active_period[p[i]]]]

\* a window that is not expired and starts after now, within the look-ahead
StartsWithinWeek(ap, now) ==
    /\ EndNotBefore(ap, now)
    /\ ap.start # 0 /\ ap.start # OUT_OF_RANGE
    /\ now < ap.start /\ ap.start <= now + 7 * SecondsPerDay

\* the alert has windows
HasWindows == Len(alert.active_period) >= 1

\* no window of the alert holds now
NoWindowHoldsNow ==
    \A i \in 1..Len(alert.active_period) : ~WindowHoldsNow(alert.active_period[i], now_local)

\* C24 as stated, for the alerts the predicate Scope admits
UpcomingTimingOn(Scope) ==
    (cls_pc = "returned" /\ HasWindows /\ Scope) =>
        /\ NoWindowHoldsNow =>
               (cls_flags.upcoming <=>
                    \E i \in 1..Len(alert.active_period) :
                        StartsWithinWeek(alert.active_period[i], now_local))
        /\ \A p \in Orders(Len(alert.active_period)) :
               classify_alert_for_route(Reordered(alert, p), "R", now_local) = cls_result

\* C24: an alert none of whose windows holds now is marked upcoming exactly when some
\* window that is not expired starts after now and at most 7 days ahead; a window
\* holding now that comes later in the list still makes the alert active; so the label
\* is the same for every ordering of the alert's windows.
C24_UpcomingTimingAnyOrder == UpcomingTimingOn(TRUE)

\* the part of C24 the code keeps: the alerts all of whose stamps datetime can
\* represent
UpcomingTimingWhenRepresentable == UpcomingTimingOn(UnrepresentableWindows = {})

\* C25: the textual fallback runs only for alerts without windows: for an alert with
\* at least one window the timing flags are those of the windows whatever header the
\* alert carries, and when the windows give neither active nor upcoming the label is
\* 'unknown' whatever the text says.
C25_TextOnlyWithoutWindows ==
    (cls_pc = "returned" /\ HasWindows) =>
        /\ cls_flags.has_period
        /\ \A h \in ClsHeaders :
               /\ TimingFlags([alert EXCEPT !.header_text = h], now_local).active
                      = cls_flags.active
               /\ TimingFlags([alert EXCEPT !.header_text = h], now_local).upcoming
                      = cls_flags.upcoming
        /\ (NoWindowHoldsNow
            /\ \A i \in 1..Len(alert.active_period) :
                   ~StartsWithinWeek(alert.active_period[i], now_local))
               => cls_result = "unknown"

\* C25's case: an alert whose only window is expired and whose header names a date
\* of the coming week has been classified 'unknown'
C25_Witness ==
    /\ cls_pc = "returned"
    /\ Len(alert.active_period) = 1
    /\ alert.active_period[1].end > 0 /\ alert.active_period[1].end < now_local
    /\ TimingFromText(alert, now_local).upcoming
    /\ cls_result = "unknown"

\* the date the text names, read as the claim reads it: the leftmost
\* '<day> <Month>[ <year>]', a missing year being the current one
ClaimParsed ==
    Strptime(ToInt(DateGroups(FullText(alert)).day), DateGroups(FullText(alert)).month_name,
             IF DateGroups(FullText(alert)).year_str = ""
             THEN CivilFromDays(DateOf(now_local)).year
             ELSE ToInt(DateGroups(FullText(alert)).year_str))

\* the text of an alert without windows names a valid calendar date
NamesValidDate ==
    /\ Len(alert.active_period) = 0
    /\ DateGroups(FullText(alert)).found
    /\ ClaimParsed.ok

\* the date is more than 180 days before today
LongPast(parsed, today) == DaysFromCivil(parsed.year, parsed.month, parsed.day) < today - 180

\* the dates 'moved forward one year' can mean: the same day of the next year, and
\* for a 29 February the last day of that February or the day after
MovedForward(parsed) ==
    IF parsed.day <= DaysInMonth(parsed.year + 1, parsed.month)
    THEN {DaysFromCivil(parsed.year + 1, parsed.month, parsed.day)}
    ELSE {DaysFromCivil(parsed.year + 1, parsed.month, DaysInMonth(parsed.year + 1, parsed.month)),
          DaysFromCivil(parsed.year + 1, parsed.month, DaysInMonth(parsed.year + 1, parsed.month)) + 1}

\* the dates the claim's rule compares with today
ClaimDates(parsed, today) ==
    IF LongPast(parsed, today) THEN MovedForward(parsed)
    ELSE {DaysFromCivil(parsed.year, parsed.month, parsed.day)}

\* C26 as stated, for the alerts the predicate Scope admits
TextualDateRuleOn(Scope) ==
    (cls_pc = "returned" /\ NamesValidDate /\ Scope) =>
        \E d \in ClaimDates(ClaimParsed, DateOf(now_local)) :
            /\ cls_flags.active <=> d <= DateOf(now_local)
            /\ cls_flags.upcoming <=> (DateOf(now_local) < d /\ d <= DateOf(now_local) + 7)

\* C26: for an alert without windows whose text names a valid calendar date (a
\* 29 February included), a missing year is the current year, a date more than 180
\* days before today is moved forward one year, and then date <= today marks the
\* alert active and today < date <= today + 7 days marks it upcoming.
C26_TextualDateRule == TextualDateRuleOn(TRUE)

\* the part of C26 the code keeps: every date but a 29 February that has to be moved
\* to a year without one
TextualDateRuleButLeapDay ==
    TextualDateRuleOn(~(LongPast(ClaimParsed, DateOf(now_local))
                        /\ ClaimParsed.day > DaysInMonth(ClaimParsed.year + 1, ClaimParsed.month)))

-----------------------------------------------------------------------------
(* Claims about the terminus map, under SpecTermini *)

\* the rows of the routes table that are rail routes
RailRows == {i \in 1..Len(routes) : routes[i].route_type = "2"}

\* the tokens of the i-th route's long name
TokensOf(i) == NameParts(LongNameOf(routes[i]))

\* route id `r` is registered under terminus `ep`
RegisteredUnder(ep, r) ==
    \E k \in 1..Len(termini_map) : termini_map[k].terminus = ep /\ r \in termini_map[k].routes

\* the i-th route is registered under the first and last token of its long name, or
\* under its only token
RegisteredAtEndpoints(i) ==
    /\ Len(TokensOf(i)) >= 1
    /\ TokensOf(i)[1] # "" => RegisteredUnder(TokensOf(i)[1], routes[i].route_id)
    /\ TokensOf(i)[Len(TokensOf(i))] # ""
           => RegisteredUnder(TokensOf(i)[Len(TokensOf(i))], routes[i].route_id)

\* every route a terminus holds is a rail route one of whose endpoints it is
OnlyEndpointsRegistered ==
    \A k \in 1..Len(termini_map) :
        \A r \in termini_map[k].routes :
            \E i \in RailRows :
                /\ routes[i].route_id = r
                /\ Len(TokensOf(i)) >= 1
                /\ termini_map[k].terminus \in {TokensOf(i)[1], TokensOf(i)[Len(TokensOf(i))]}

\* C27: the building step completes for every long name without raising, and every
\* rail route is then registered under the first and the last token of its long name
\* (under its only token when there is one), registrations of several routes under
\* one terminus adding up.
C27_TerminiBuilt ==
    /\ st_pc # "raised"
    /\ st_pc = "loop" => \A i \in RailRows : RegisteredAtEndpoints(i)

\* the part of C27 the code keeps: when every rail long name has a token, the step
\* completes and registers each route under its endpoints, and under nothing else
TerminiBuiltWhenTokens ==
    /\ st_pc = "raised" => \E i \in RailRows : TokensOf(i) = <<>>
    /\ st_pc = "loop" =>
           /\ \A i \in RailRows : RegisteredAtEndpoints(i)
           /\ OnlyEndpointsRegistered

-----------------------------------------------------------------------------
(* Claims about the Services section and the route order, under SpecStatus *)

\* the place of a status in the section: closures, then upcoming incidents, then the
\* rest
SectionRank(st) ==
    IF st = "Current issues" THEN 0 ELSE IF st = "Upcoming closure" THEN 1 ELSE 2

\* C28: in the Services section of a returned cycle every terminus with a current
\* closure is listed before every terminus with only an upcoming incident, and every
\* such terminus before every operational terminus.
C28_ClosuresListedFirst ==
    st_pc = "returned" =>
        \A i, j \in 1..Len(terminus_lines) :
            i < j => SectionRank(terminus_lines[i].status) <= SectionRank(terminus_lines[j].status)

\* what the code does instead: every line is in the operational list, so the section
\* lists the termini in the order of their lower-cased names whatever their status
AllLinesInOperationalList ==
    /\ termini_closure_lines = <<>>
    /\ termini_upcoming_lines = <<>>
    /\ \A i, j \in 1..Len(terminus_lines) :
           i < j => StrLess(Lower(terminus_lines[i].terminus), Lower(terminus_lines[j].terminus))

\* the orders in which a set of route ids can be iterated
IterationOrders(S) ==
    {p \in [1..Cardinality(S) -> S] : \A i, j \in 1..Cardinality(S) : i # j => p[i] # p[j]}

\* the termini whose iteration is over
Evaluated == DOMAIN final_status

\* C29: for a fixed alert list, route table and clock, the status label and the
\* closure reasons computed for a terminus are the same for every order in which the
\* terminus's route-id set is iterated.
C29_OrderIndependent ==
    \A t \in Evaluated :
        \A p, q \in IterationOrders(RoutesOf(termini_map, t)) :
            TerminusOutcome(t, p, alerts, now_local) = TerminusOutcome(t, q, alerts, now_local)

\* what the cycle computed for a terminus is the outcome of one of the orders
OutcomeOfSomeOrder ==
    \A t \in Evaluated :
        \E p \in IterationOrders(RoutesOf(termini_map, t)) :
            /\ final_status[t] = TerminusOutcome(t, p, alerts, now_local).status
            /\ final_reasons[t] = TerminusOutcome(t, p, alerts, now_local).reasons

\* the part of C29 the code keeps: a terminus with a single route has one outcome,
\* and the cycle computes it
OrderIndependentSingleRoute ==
    \A t \in Evaluated :
        Cardinality(RoutesOf(termini_map, t)) = 1 =>
            /\ final_status[t]
                   = TerminusOutcome(t, [i \in {1} |-> CHOOSE r \in RoutesOf(termini_map, t) : TRUE],
                                     alerts, now_local).status
            /\ final_reasons[t]
                   = TerminusOutcome(t, [i \in {1} |-> CHOOSE r \in RoutesOf(termini_map, t) : TRUE],
                                     alerts, now_local).reasons

====
